---- MODULE Spec2Model ----
(***************************************************************************)
(* A model of plotiron's DOT subsystem: DotGraph::parse_dot                *)
(* (src/src/dot/parser.rs), DotGraph::new / set_layout                     *)
(* (src/src/dot/types.rs) and DotGraph::apply_layout                       *)
(* (src/src/dot/layout.rs).                                                *)
(*                                                                         *)
(* Text is modelled at the level of tokens: a line is a sequence of        *)
(* tokens (strings), whitespace being what separates them.  A String of    *)
(* the program (a node id, an attribute value) is the sequence of tokens   *)
(* it is made of, so that trimming quotes or a trailing ';' is something   *)
(* the model computes and can get wrong.  Option<T> is a sequence of       *)
(* length 0 (None) or 1 (Some).                                            *)
(***************************************************************************)
EXTENDS Integers, Sequences, FiniteSets, TLC

(***************************************************************************)
(* Bounds of the model.                                                    *)
(***************************************************************************)
MaxLines == 3
MaxScenarioLines == 7

QUOTE == "\""

None == << >>
Some(v) == << v >>

(***************************************************************************)
(* The input alphabet: the lines a text is made of.                        *)
(***************************************************************************)
NodeNames == {"a", "b", "c", "a0", "a1", "a2", "color1"}

Catalogue ==
    { <<"//", "a", ";">>,
      <<"digraph", "G", "{">>,
      <<"}">>,
      <<"digraph", "G", "{", "}">>,
      <<"digraph", "G", "{", "a", "->", "b", ";", "b", "->", "c", ";", "}">>,
      <<"graph", "G", "{", "a", "--", "b", ";", "}">>,
      <<"subgraph", "cluster_0", "{">>,
      <<"subgraph", "cluster_1", "{">>,
      <<"color", "=", "lightgrey", ";">>,
      <<"a", "->", "b", ";">>,
      <<"a", "--", "b", ";">>,
      <<"a", "->", "b", "->", "c", ";">>,
      <<"color1", "->", "b", "->", "c", ";">>,
      <<"a", "->", "b", "[", "color", "=", "red", "]", ";">>,
      <<"a", "[", "color", "=", "red", "]", ";">>,
      <<"a", ";">>,
      <<"color1", ";">>,
      <<"a", "]", "[">> }

\* The lines of the subgraph scenario: a cluster with its attributes and
\* the statement of its body.
ScenarioCatalogue ==
    { <<"digraph", "G", "{">>,
      <<"subgraph", "cluster_0", "{">>,
      <<"style", "=", "filled", ";">>,
      <<"color", "=", "lightgrey", ";">>,
      <<"a0", "->", "a1", ";">>,
      <<"}">> }

(***************************************************************************)
(* str operations, on token sequences.                                     *)
(***************************************************************************)
\* Tokens whose spelling begins with the spelling of another token.
ProperPrefixes == { <<"color1", "color">> }

\* str::starts_with on the first token of a line
HasPrefix(tok, kw) == tok = kw \/ <<tok, kw>> \in ProperPrefixes

StartsWith(line, kw) == Len(line) > 0 /\ HasPrefix(line[1], kw)

EndsWith(line, tok) == Len(line) > 0 /\ line[Len(line)] = tok

Contains(line, tok) == \E i \in 1..Len(line) : line[i] = tok

\* str::matches(tok).count()
Count(line, tok) == Cardinality({i \in 1..Len(line) : line[i] = tok})

\* str::find: the index of the first occurrence, 0 when there is none
Find(line, tok) ==
    IF Contains(line, tok)
    THEN CHOOSE i \in 1..Len(line) :
            line[i] = tok /\ \A j \in 1..(i - 1) : line[j] # tok
    ELSE 0

\* str::split(sep), collected: at least one part, the parts between separators
RECURSIVE Split(_, _)
Split(line, sep) ==
    LET k == Find(line, sep)
    IN IF k = 0 THEN << line >>
       ELSE << SubSeq(line, 1, k - 1) >> \o Split(SubSeq(line, k + 1, Len(line)), sep)

\* str::trim_end_matches(tok)
RECURSIVE TrimEndMatches(_, _)
TrimEndMatches(s, tok) ==
    IF Len(s) > 0 /\ s[Len(s)] = tok
    THEN TrimEndMatches(SubSeq(s, 1, Len(s) - 1), tok)
    ELSE s

RECURSIVE TrimStartMatches(_, _)
TrimStartMatches(s, tok) ==
    IF Len(s) > 0 /\ s[1] = tok
    THEN TrimStartMatches(Tail(s), tok)
    ELSE s

\* str::trim_matches(tok): both ends
TrimMatches(s, tok) == TrimEndMatches(TrimStartMatches(s, tok), tok)

\* name.trim().trim_matches('"')
clean_node_name(name) == TrimMatches(name, QUOTE)

get_node_color(node_id) == "BLACK"

parse_color(color_str) ==
    IF Len(color_str) # 1 THEN "BLACK"
    ELSE CASE color_str[1] = "red" -> "RED"
           [] color_str[1] = "blue" -> "BLUE"
           [] color_str[1] = "green" -> "GREEN"
           [] color_str[1] = "white" -> "WHITE"
           [] color_str[1] = "black" -> "BLACK"
           [] color_str[1] \in {"lightgrey", "lightgray"} -> "GRAY"
           [] OTHER -> "BLACK"

\* &line[start+1..end] aborts when ']' comes before '['
AttrSlicePanics(line) ==
    LET start == Find(line, "[")
        end == Find(line, "]")
    IN start # 0 /\ end # 0 /\ start + 1 > end

\* The (key, value) pairs in the order they are inserted into the map.
parse_attributes(line) ==
    LET start == Find(line, "[")
        end == Find(line, "]")
    IN IF start = 0 \/ end = 0 \/ start + 1 > end THEN << >>
       ELSE LET pairs == Split(SubSeq(line, start + 1, end - 1), ",")
                Kept == SelectSeq(pairs, LAMBDA p : Len(Split(p, "=")) = 2)
            IN [i \in 1..Len(Kept) |->
                  << Split(Kept[i], "=")[1],
                     TrimMatches(Split(Kept[i], "=")[2], QUOTE) >>]

\* HashMap::get after the inserts: the last value inserted under the key
AttrGet(attrs, key) ==
    LET Hits == {i \in 1..Len(attrs) : attrs[i][1] = << key >>}
    IN IF Hits = {} THEN None
       ELSE Some(attrs[CHOOSE i \in Hits : \A j \in Hits : j <= i][2])

(***************************************************************************)
(* The program's state.                                                    *)
(*   pc               where the caller is: "parsing" (inside parse_dot's   *)
(*                    line loop), "ready" (holds a DotGraph), "done"       *)
(*                    (parse_dot returned Err or aborted), "called"        *)
(*                    (add_dot_subplot_with_layout entered), "rendered"    *)
(*                    (render_to_axes returned)                            *)
(*   result           what parse_dot returned: "none" | "Ok" | "Err" |     *)
(*                    "panic"                                              *)
(*   brace_depth, current_subgraph, node_map   locals of parse_dot         *)
(*   dir_found        whether the loop of lines 16-25 has met its break    *)
(*   nodes, edges, subgraphs, directed, layout the fields of the DotGraph  *)
(*   lresult          how the last apply_layout ended: "none" | "ok" |     *)
(*                    "panic"                                              *)
(*   text             the lines of dot_content read so far                 *)
(*   subplots         the Axes of the Figure, or the one Axes a caller     *)
(*                    renders into: their series and raw fragments         *)
(*   call             a call of a function of utils.rs: its argument and,  *)
(*                    once it has returned, what it returned               *)
(***************************************************************************)
VARIABLES pc, result, brace_depth, current_subgraph, node_map, dir_found,
          nodes, edges, subgraphs, directed, layout, lresult, applied,
          text, hier, subplots, call

vars == << pc, result, brace_depth, current_subgraph, node_map, dir_found,
           nodes, edges, subgraphs, directed, layout, lresult, applied,
           text, hier, subplots, call >>

NewNode(id) ==
    [id |-> id, label |-> Some(id), shape |-> "Ellipse",
     color |-> get_node_color(id), x |-> 0, y |-> 0]

NewEdge(from, to, dir) ==
    [from |-> from, to |-> to, label |-> None, color |-> "BLACK",
     style |-> "Solid", directed |-> dir]

NewSubgraph(id) ==
    [id |-> id, label |-> None, nodes |-> << >>, style |-> None,
     color |-> None, fill_color |-> None]

\* HashMap::insert: a new entry, or the entry under the key replaced
MapInsert(m, k, v) == [i \in DOMAIN m \cup {k} |-> IF i = k THEN v ELSE m[i]]

\* Vec::contains
SeqContains(s, e) == \E i \in 1..Len(s) : s[i] = e

\* line.split('=').nth(1).unwrap_or("")
AfterEq(line) ==
    LET parts == Split(line, "=")
    IN IF Len(parts) >= 2 THEN parts[2] ELSE << >>

\* Lines 35-47: the brace counter and the end of a subgraph.
BraceAfterOpen(st, line) ==
    IF Contains(line, "{") THEN st.brace_depth + Count(line, "{")
    ELSE st.brace_depth

BraceAfterClose(st, line) ==
    IF Contains(line, "}") THEN BraceAfterOpen(st, line) - Count(line, "}")
    ELSE BraceAfterOpen(st, line)

\* brace_depth is a usize: the subtraction underflows when more braces close
\* than are open.  A build with overflow checks aborts there; one without
\* wraps to 2^64 - k, which this model writes as -k.
BraceUnderflows(st, line) ==
    BraceAfterOpen(st, line) >= 0 /\ BraceAfterClose(st, line) < 0

ClosesSubgraph(st, line) ==
    /\ Contains(line, "}")
    /\ st.brace_depth = 2
    /\ BraceAfterClose(st, line) = 1
    /\ st.current_subgraph # None

HandleBraces(st, line) ==
    [st EXCEPT
       !.brace_depth = BraceAfterClose(st, line),
       !.subgraphs = IF ClosesSubgraph(st, line)
                     THEN Append(@, st.current_subgraph[1]) ELSE @,
       !.current_subgraph = IF ClosesSubgraph(st, line) THEN None ELSE @]

\* Lines 55-70: a subgraph definition replaces the active subgraph.
SubgraphLine(st, line) ==
    IF Len(line) >= 2
    THEN [st EXCEPT !.current_subgraph = Some(NewSubgraph(line[2]))]
    ELSE st

\* Lines 74-85
SubgraphLabel(st, line) ==
    [st EXCEPT !.current_subgraph[1].label =
        Some(TrimEndMatches(TrimMatches(AfterEq(line), QUOTE), ";"))]

\* Lines 86-96
SubgraphStyle(st, line) ==
    [st EXCEPT !.current_subgraph[1].style =
        Some(TrimEndMatches(AfterEq(line), ";"))]

\* Lines 97-109
SubgraphColor(st, line) ==
    LET color == TrimEndMatches(AfterEq(line), ";")
    IN [st EXCEPT !.current_subgraph[1].color = Some(color),
                  !.current_subgraph[1].fill_color = Some(color)]

\* Lines 110-126
SubgraphNodeDefaults(st, line) ==
    IF AttrSlicePanics(line) THEN [st EXCEPT !.panic = TRUE]
    ELSE LET attrs == parse_attributes(line)
             sg == st.current_subgraph[1]
         IN IF AttrGet(attrs, "style") = Some(<<"filled">>) /\ sg.color = None
            THEN [st EXCEPT !.current_subgraph[1].fill_color =
                     IF AttrGet(attrs, "color") # None
                     THEN AttrGet(attrs, "color")
                     ELSE Some(<<"lightgrey">>)]
            ELSE st

\* A single edge that creates no node for its endpoints
EnsureNodeSkipped(st, id) == st

\* Lines 140-163: an endpoint of a single edge is created when missing
EnsureNode(st, id) ==
    IF id \in DOMAIN st.node_map THEN st
    ELSE [st EXCEPT !.node_map = MapInsert(@, id, NewNode(id))]

\* Lines 135-173
SingleEdge(st, parts, dir) ==
    LET from == clean_node_name(parts[1])
        to == clean_node_name(TrimEndMatches(parts[2], ";"))
        st1 == EnsureNode(EnsureNode(st, from), to)
    IN [st1 EXCEPT !.edges = Append(@, NewEdge(from, to, dir))]

\* Lines 179-223: one iteration of the loop over the names of a chain
ChainNode(st, names, i, dir) ==
    LET clean_name == clean_node_name(names[i])
        st1 == IF st.current_subgraph # None
                  /\ ~SeqContains(st.current_subgraph[1].nodes, clean_name)
               THEN [st EXCEPT !.current_subgraph[1].nodes = Append(@, clean_name)]
               ELSE st
        node == IF st1.current_subgraph # None
                   /\ st1.current_subgraph[1].fill_color # None
                THEN [NewNode(clean_name) EXCEPT
                        !.color = parse_color(st1.current_subgraph[1].fill_color[1])]
                ELSE NewNode(clean_name)
        st2 == IF clean_name \in DOMAIN st1.node_map THEN st1
               ELSE [st1 EXCEPT !.node_map = MapInsert(@, clean_name, node)]
    IN IF i < Len(names)
       THEN [st2 EXCEPT !.edges =
               Append(@, NewEdge(clean_name, clean_node_name(names[i + 1]), dir))]
       ELSE st2

RECURSIVE ChainLoop(_, _, _, _)
ChainLoop(st, names, i, dir) ==
    IF i > Len(names) THEN st
    ELSE ChainLoop(ChainNode(st, names, i, dir), names, i + 1, dir)

\* Lines 129-224
EdgeLine(st, line) ==
    LET separator == IF Contains(line, "->") THEN "->" ELSE "--"
        dir == (separator = "->")
        parts == Split(line, separator)
    IN IF Len(parts) = 2 THEN SingleEdge(st, parts, dir)
       ELSE IF Len(parts) > 2
       THEN ChainLoop(st, [i \in 1..Len(parts) |-> TrimEndMatches(parts[i], ";")],
                      1, dir)
       ELSE st

node_shape(shape) ==
    IF Len(shape) # 1 THEN "Ellipse"
    ELSE CASE shape[1] \in {"box", "rectangle"} -> "Rectangle"
           [] shape[1] = "diamond" -> "Diamond"
           [] shape[1] = "ellipse" -> "Ellipse"
           [] shape[1] = "Mdiamond" -> "Mdiamond"
           [] shape[1] = "Msquare" -> "Msquare"
           [] shape[1] = "circle" -> "Circle"
           [] OTHER -> "Ellipse"

\* Lines 225-267
AttributedNode(st, line) ==
    IF AttrSlicePanics(line) THEN [st EXCEPT !.panic = TRUE]
    ELSE
    LET node_name == clean_node_name(Split(line, "[")[1])
        attrs == parse_attributes(line)
        n0 == NewNode(node_name)
        n1 == IF AttrGet(attrs, "label") # None
              THEN [n0 EXCEPT !.label = AttrGet(attrs, "label")] ELSE n0
        n2 == IF AttrGet(attrs, "shape") # None
              THEN [n1 EXCEPT !.shape = node_shape(AttrGet(attrs, "shape")[1])]
              ELSE n1
        n3 == IF AttrGet(attrs, "color") # None
              THEN [n2 EXCEPT !.color = parse_color(AttrGet(attrs, "color")[1])]
              ELSE n2
        inSub == st.current_subgraph # None
        n4 == IF inSub /\ st.current_subgraph[1].fill_color # None
              THEN [n3 EXCEPT !.color = parse_color(st.current_subgraph[1].fill_color[1])]
              ELSE n3
        st1 == IF inSub
               THEN [st EXCEPT !.current_subgraph[1].nodes = Append(@, node_name)]
               ELSE st
    IN [st1 EXCEPT !.node_map = MapInsert(@, node_name, n4)]

\* Lines 315-335 (the branch of lines 271-314 tests for "->" on a line the
\* first branch, line 129, has already taken: no line reaches it)
SimpleNode(st, line) ==
    LET node_name == clean_node_name(TrimEndMatches(line, ";"))
    IN IF node_name # << >> /\ node_name \notin DOMAIN st.node_map
       THEN LET st1 == IF st.current_subgraph # None
                       THEN [st EXCEPT !.current_subgraph[1].nodes =
                               Append(@, node_name)]
                       ELSE st
            IN [st1 EXCEPT !.node_map = MapInsert(@, node_name, NewNode(node_name))]
       ELSE st

\* Lines 129-336: the statement a line holds
Statement(st, line) ==
    IF Contains(line, "->") \/ Contains(line, "--") THEN EdgeLine(st, line)
    ELSE IF Contains(line, "[") /\ Contains(line, "]") THEN AttributedNode(st, line)
    ELSE IF /\ EndsWith(line, ";")
            /\ ~StartsWith(line, "label")
            /\ ~StartsWith(line, "style")
            /\ ~StartsWith(line, "color")
         THEN SimpleNode(st, line)
    ELSE st

\* Lines 27-337: the body of the loop over the lines, for one line
ProcessLine(st, line) ==
    IF line = << >> \/ StartsWith(line, "//") THEN st
    ELSE LET st1 == HandleBraces(st, line)
         IN IF \/ StartsWith(line, "digraph") \/ StartsWith(line, "graph")
               \/ line = <<"{">> \/ line = <<"}">>
            THEN st1
            ELSE IF StartsWith(line, "subgraph") THEN SubgraphLine(st1, line)
            ELSE IF st1.current_subgraph # None /\ StartsWith(line, "label")
                 THEN SubgraphLabel(st1, line)
            ELSE IF st1.current_subgraph # None /\ StartsWith(line, "style")
                 THEN SubgraphStyle(st1, line)
            ELSE IF st1.current_subgraph # None /\ StartsWith(line, "color")
                 THEN SubgraphColor(st1, line)
            ELSE IF /\ st1.current_subgraph # None
                    /\ StartsWith(line, "node") /\ Contains(line, "[")
                 THEN SubgraphNodeDefaults(st1, line)
            ELSE Statement(st1, line)

(***************************************************************************)
(* parse_dot as a state machine.  The text is read one line at a time;     *)
(* the parser never looks ahead, so the lines are chosen as it goes.  The  *)
(* loop of lines 16-25, which runs over all lines before the main loop and *)
(* writes only graph.directed, is folded into the same steps.              *)
(***************************************************************************)
ParserState ==
    [brace_depth |-> brace_depth, current_subgraph |-> current_subgraph,
     subgraphs |-> subgraphs, node_map |-> node_map, edges |-> edges,
     panic |-> FALSE]

Skipped(line) == line = << >> \/ StartsWith(line, "//")

\* The line makes parse_dot abort: the slice of parse_attributes, or the
\* brace counter's underflow in a build with overflow checks.
LineAborts(st, line) ==
    /\ ~Skipped(line)
    /\ \/ BraceUnderflows(st, line)
       \/ ProcessLine(st, line).panic

\* Lines 16-25
DetectDirected(line) ==
    IF ~dir_found /\ StartsWith(line, "digraph")
    THEN directed' = TRUE /\ dir_found' = TRUE
    ELSE IF ~dir_found /\ StartsWith(line, "graph")
    THEN directed' = FALSE /\ dir_found' = TRUE
    ELSE UNCHANGED << directed, dir_found >>

ParseLine(line) ==
    /\ pc = "parsing"
    /\ LET st == ProcessLine(ParserState, line)
       IN /\ ~st.panic
          /\ brace_depth' = st.brace_depth
          /\ current_subgraph' = st.current_subgraph
          /\ subgraphs' = st.subgraphs
          /\ node_map' = st.node_map
          /\ edges' = st.edges
    /\ DetectDirected(line)
    /\ text' = Append(text, line)
    /\ UNCHANGED << pc, result, nodes, layout, lresult, applied, hier, subplots, call >>

ParseLineAborts(line) ==
    /\ pc = "parsing"
    /\ LineAborts(ParserState, line)
    /\ pc' = "done"
    /\ result' = "panic"
    /\ text' = Append(text, line)
    /\ UNCHANGED << brace_depth, current_subgraph, subgraphs, node_map, edges,
                    dir_found, directed, nodes, layout, lresult, applied, hier, subplots, call >>

\* node_map.into_values().collect(): the values in the map's iteration order,
\* which is any order
Orderings(S) ==
    { s \in [1..Cardinality(S) -> S] :
        \A i, j \in 1..Cardinality(S) : i # j => s[i] # s[j] }

\* An end of input that takes a graph of no node for a result
ParseOutcomeLenient(map) == "Ok"

\* Lines 346-350
ParseOutcome(map) == IF DOMAIN map = {} THEN "Err" ELSE "Ok"

\* Lines 339-350: the end of the input
Finish ==
    /\ pc = "parsing"
    /\ subgraphs' = IF current_subgraph # None
                    THEN Append(subgraphs, current_subgraph[1]) ELSE subgraphs
    /\ current_subgraph' = None
    /\ \E order \in Orderings(DOMAIN node_map) :
          nodes' = [i \in 1..Len(order) |-> node_map[order[i]]]
    /\ result' = ParseOutcome(node_map)
    /\ pc' = IF result' = "Err" THEN "done" ELSE "ready"
    /\ UNCHANGED << brace_depth, node_map, edges, dir_found, directed, layout,
                    lresult, text, applied, hier, subplots, call >>

\* DotGraph::new(true) and the locals of lines 9-13
Init ==
    /\ pc = "parsing"
    /\ result = "none"
    /\ brace_depth = 0
    /\ current_subgraph = None
    /\ node_map = << >>
    /\ dir_found = FALSE
    /\ nodes = << >>
    /\ edges = << >>
    /\ subgraphs = << >>
    /\ directed = TRUE
    /\ layout = "Hierarchical"
    /\ lresult = "none"
    /\ applied = None
    /\ hier = None
    /\ call = None
    /\ subplots = << >>
    /\ text = << >>

\* parse_dot on the texts of at most MaxLines lines of Catalogue
Next ==
    \/ \E line \in Catalogue : Len(text) < MaxLines /\ ParseLine(line)
    \/ \E line \in Catalogue : Len(text) < MaxLines /\ ParseLineAborts(line)
    \/ Finish

Spec == Init /\ [][Next]_vars

\* parse_dot on the texts of at most MaxScenarioLines lines of ScenarioCatalogue
NextScenario ==
    \/ \E line \in ScenarioCatalogue :
          Len(text) < MaxScenarioLines /\ ParseLine(line)
    \/ \E line \in ScenarioCatalogue :
          Len(text) < MaxScenarioLines /\ ParseLineAborts(line)
    \/ Finish

SpecScenario == Init /\ [][NextScenario]_vars


(***************************************************************************)
(* Layout.  A coordinate is a fixed-point number: an integer count of      *)
(* 1/Scale units, so that 0.1 is Scale/10.  Products are rounded down to   *)
(* a unit where the program rounds to the nearest f64.                     *)
(***************************************************************************)
Scale == 100 * 100

\* num/den of the unit interval, in units
Units(num, den) == (num * Scale) \div den

Half == Units(1, 2)

Max2(a, b) == IF a >= b THEN a ELSE b
Min2(a, b) == IF a <= b THEN a ELSE b

\* cos and sin of 2*pi*i/n in units, for the n the model reaches
Cos(n, i) ==
    CASE n = 2 -> IF i = 0 THEN Scale ELSE 0 - Scale
      [] n = 3 -> IF i = 0 THEN Scale ELSE 0 - Units(1, 2)
      [] n = 4 -> CASE i = 0 -> Scale [] i = 2 -> 0 - Scale [] OTHER -> 0
      [] n = 5 -> CASE i = 0 -> Scale
                    [] i \in {1, 4} -> Units(3090, 10000)
                    [] OTHER -> 0 - Units(8090, 10000)

Sin(n, i) ==
    CASE n = 2 -> 0
      [] n = 3 -> CASE i = 0 -> 0
                    [] i = 1 -> Units(8660, 10000)
                    [] OTHER -> 0 - Units(8660, 10000)
      [] n = 4 -> CASE i = 1 -> Scale [] i = 3 -> 0 - Scale [] OTHER -> 0
      [] n = 5 -> CASE i = 0 -> 0
                    [] i = 1 -> Units(9511, 10000)
                    [] i = 2 -> Units(5878, 10000)
                    [] i = 3 -> 0 - Units(5878, 10000)
                    [] OTHER -> 0 - Units(9511, 10000)

\* Lines 16-28 (radius 35/100) and 210-219 (radius 25/100)
CirclePlacement(ns, radius) ==
    [i \in 1..Len(ns) |->
        IF Len(ns) = 1
        THEN [ns[i] EXCEPT !.x = Half, !.y = Half]
        ELSE [ns[i] EXCEPT
                !.x = Half + (radius * Cos(Len(ns), i - 1)) \div 100,
                !.y = Half + (radius * Sin(Len(ns), i - 1)) \div 100]]

apply_circular_layout(ns) == CirclePlacement(ns, 35)

\* The square root rounded down
FloorSqrt(n) == CHOOSE c \in 0..n : c * c <= n /\ (c + 1) * (c + 1) > n

\* (node_count as f64).sqrt().ceil()
CeilSqrt(n) == CHOOSE c \in 0..n : c * c >= n /\ \A d \in 0..(c - 1) : d * d < n

\* Line 265 with no node: cols is 0, node_count + cols - 1 underflows and
\* the division by cols aborts in every build.
GridPanics(ns) == CeilSqrt(Len(ns)) = 0

\* Lines 262-274
apply_grid_layout(ns) ==
    LET node_count == Len(ns)
        cols == CeilSqrt(node_count)
        rows == (node_count + cols - 1) \div cols
    IN [i \in 1..node_count |->
          LET col == (i - 1) % cols
              row == (i - 1) \div cols
          IN [ns[i] EXCEPT
                !.x = IF cols = 1 THEN Half
                      ELSE Units(1, 10) + (Units(8, 10) * col) \div (cols - 1),
                !.y = IF rows = 1 THEN Half
                      ELSE Units(1, 10) + (Units(8, 10) * row) \div (rows - 1)]]

\* iter().position(|n| n.id == id): the first index, 0 for None
Position(ns, id) ==
    IF \E i \in 1..Len(ns) : ns[i].id = id
    THEN CHOOSE i \in 1..Len(ns) :
            ns[i].id = id /\ \A j \in 1..(i - 1) : ns[j].id # id
    ELSE 0

\* Lines 226-248: the pulls of the edges, summed per node
RECURSIVE Adjustments(_, _, _, _)
Adjustments(ns, es, k, adj) ==
    IF k > Len(es) THEN adj
    ELSE LET from_idx == Position(ns, es[k].from)
             to_idx == Position(ns, es[k].to)
         IN IF from_idx = 0 \/ to_idx = 0 THEN Adjustments(ns, es, k + 1, adj)
            ELSE LET dx == ns[to_idx].x - ns[from_idx].x
                     dy == ns[to_idx].y - ns[from_idx].y
                     px == (dx * 2) \div 100
                     py == (dy * 2) \div 100
                     a1 == [adj EXCEPT ![from_idx] = << @[1] + px, @[2] + py >>]
                     a2 == [a1 EXCEPT ![to_idx] = << @[1] - px, @[2] - py >>]
                 IN IF dx # 0 \/ dy # 0
                    THEN Adjustments(ns, es, k + 1, a2)
                    ELSE Adjustments(ns, es, k + 1, adj)

Clamp(v, lo, hi) == Min2(Max2(v, lo), hi)

\* An iteration that moves the two ends of an edge as soon as its pull is
\* computed, so that a later edge reads the moved positions
RECURSIVE PullInPlace(_, _, _)
PullInPlace(ns, es, k) ==
    IF k > Len(es) THEN ns
    ELSE LET from_idx == Position(ns, es[k].from)
             to_idx == Position(ns, es[k].to)
         IN IF from_idx = 0 \/ to_idx = 0 THEN PullInPlace(ns, es, k + 1)
            ELSE LET px == ((ns[to_idx].x - ns[from_idx].x) * 2) \div 100
                     py == ((ns[to_idx].y - ns[from_idx].y) * 2) \div 100
                     n1 == [ns EXCEPT ![from_idx].x = @ + px,
                                      ![from_idx].y = @ + py]
                     n2 == [n1 EXCEPT ![to_idx].x = @ - px,
                                      ![to_idx].y = @ - py]
                 IN PullInPlace(n2, es, k + 1)

ForceIterationInPlace(ns, es) ==
    LET moved == PullInPlace(ns, es, 1)
    IN [i \in 1..Len(ns) |->
          [moved[i] EXCEPT
             !.x = Clamp(@, Units(1, 10), Units(9, 10)),
             !.y = Clamp(@, Units(1, 10), Units(9, 10))]]

\* Lines 222-259: one iteration
ForceIteration(ns, es) ==
    LET adj == Adjustments(ns, es, 1, [i \in 1..Len(ns) |-> << 0, 0 >>])
    IN [i \in 1..Len(ns) |->
          [ns[i] EXCEPT
             !.x = Clamp(@ + adj[i][1], Units(1, 10), Units(9, 10)),
             !.y = Clamp(@ + adj[i][2], Units(1, 10), Units(9, 10))]]

RECURSIVE ForceIterations(_, _, _)
ForceIterations(ns, es, k) ==
    IF k = 0 THEN ns ELSE ForceIterations(ForceIteration(ns, es), es, k - 1)

\* Lines 204-260
apply_force_directed_layout(ns, es) ==
    ForceIterations(CirclePlacement(ns, 25), es, 10)

\* Lines 195-202
NoSubgraph == "_none"

get_node_subgraph(sgs, node_id) ==
    IF \E i \in 1..Len(sgs) : SeqContains(sgs[i].nodes, node_id)
    THEN sgs[CHOOSE i \in 1..Len(sgs) :
                /\ SeqContains(sgs[i].nodes, node_id)
                /\ \A j \in 1..(i - 1) : ~SeqContains(sgs[j].nodes, node_id)].id
    ELSE NoSubgraph

IdsOf(ns) == { ns[i].id : i \in 1..Len(ns) }

\* Lines 33-47: the keys of in_degree, the in-degrees, the adjacency lists
DegreeKeys(ns, es) == IdsOf(ns) \cup { es[i].to : i \in 1..Len(es) }

in_degree_flat(ns, es) ==
    [k \in DegreeKeys(ns, es) |->
        IF \E i \in 1..Len(es) : es[i].to = k THEN 1 ELSE 0]

in_degree(ns, es) ==
    [k \in DegreeKeys(ns, es) |->
        Cardinality({ i \in 1..Len(es) : es[i].to = k })]

RECURSIVE adj_list(_, _)
adj_list(es, id) ==
    IF es = << >> THEN << >>
    ELSE IF Head(es).from = id
         THEN << Head(es).to >> \o adj_list(Tail(es), id)
         ELSE adj_list(Tail(es), id)

\* Lines 72-79: the in-degree of each neighbor goes down by one, and the
\* neighbor joins the queue when it reaches zero
RECURSIVE VisitNeighbors(_, _, _)
VisitNeighbors(neighbors, i, st) ==
    IF i > Len(neighbors) THEN st
    ELSE LET n == neighbors[i]
             degree == st.current_in_degree[n] - 1
         IN VisitNeighbors(neighbors, i + 1,
               [st EXCEPT !.current_in_degree[n] = degree,
                          !.underflow = @ \/ degree < 0,
                          !.queue = IF degree = 0 THEN Append(@, n) ELSE @])

\* An iteration that pops nothing off the queue
DrainLayerStuck(es, layer_size, st) == st

\* Lines 66-82: the layer_size nodes at the front of the queue
RECURSIVE DrainLayer(_, _, _)
DrainLayer(es, layer_size, st) ==
    IF layer_size = 0 THEN st
    ELSE LET node_id == Head(st.queue)
             popped == [st EXCEPT !.queue = Tail(@),
                                  !.current_layer = Append(@, node_id),
                                  !.processed = @ \cup {node_id}]
         IN DrainLayer(es, layer_size - 1,
                       VisitNeighbors(adj_list(es, node_id), 1, popped))

\* Lines 62-88
RECURSIVE KahnLoop(_, _)
KahnLoop(es, st) ==
    IF st.queue = << >> THEN st
    ELSE LET drained == DrainLayer(es, Len(st.queue),
                                   [st EXCEPT !.current_layer = << >>])
         IN KahnLoop(es, [drained EXCEPT
                            !.layers = IF drained.current_layer # << >>
                                       THEN Append(@, drained.current_layer)
                                       ELSE @])

\* Lines 49-60: the keys of in-degree zero, in the order the map yields them
ZeroDegreeKeys(ns, es) ==
    { k \in DegreeKeys(ns, es) : in_degree(ns, es)[k] = 0 }

Kahn(ns, es, queue) ==
    KahnLoop(es, [queue |-> queue, current_in_degree |-> in_degree(ns, es),
                  current_layer |-> << >>, processed |-> {},
                  layers |-> << >>, underflow |-> FALSE])

\* Lines 97-110: the value of best_layer after the three loops.  The break
\* leaves the loop over the edges only, so the last layer that holds a
\* source of the node decides.
BestLayer(es, layers, node_id) ==
    LET sources == { li \in 1..Len(layers) :
                       \E j \in 1..Len(layers[li]) : \E k \in 1..Len(es) :
                          /\ es[k].from = layers[li][j]
                          /\ es[k].to = node_id }
    IN IF sources = {} THEN Len(layers)
       ELSE Min2(CHOOSE li \in sources : \A m \in sources : m <= li,
                 Len(layers))

\* A layout that leaves the unreached nodes out of the layers
PlaceRemainingDropped(es, remaining_nodes, i, layers) == layers

\* Lines 93-119: the remaining nodes, in the order the set difference
\* yields them; best_layer counts from zero
RECURSIVE PlaceRemaining(_, _, _, _)
PlaceRemaining(es, remaining_nodes, i, layers) ==
    IF i > Len(remaining_nodes) THEN layers
    ELSE LET node_id == remaining_nodes[i]
             best_layer == BestLayer(es, layers, node_id)
         IN PlaceRemaining(es, remaining_nodes, i + 1,
               IF best_layer >= Len(layers)
               THEN Append(layers, << node_id >>)
               ELSE [layers EXCEPT ![best_layer + 1] = Append(@, node_id)])

\* Lines 144-155: the column of a subgraph, real_subgraphs being the order
\* in which the set yields the subgraphs of the nodes
SubgraphX(real_subgraphs, subgraph_id) ==
    IF \E i \in 1..Len(real_subgraphs) : real_subgraphs[i] = subgraph_id
    THEN LET i == CHOOSE j \in 1..Len(real_subgraphs) :
                     real_subgraphs[j] = subgraph_id
         IN IF Len(real_subgraphs) = 1 THEN Half
            ELSE Units(25, 100)
                 + (Units(1, 2) * (i - 1)) \div (Len(real_subgraphs) - 1)
    ELSE Half

\* Line 162 for the last layer: in f64, 0.9 - 1.0 * 0.8 is
\* 0.09999999999999998, which is 2^-55 below the f64 0.1.  The model keeps
\* the order of the two values and shows the gap as one unit.
RoundingGap == 1

\* Layers one full step of 0.8 apart, whatever their number
LayerYUnscaled(layer_count, layer_index) ==
    Units(9, 10) - Units(8, 10) * layer_index

\* Lines 159-163
LayerY(layer_count, layer_index) ==
    IF layer_count = 1 THEN Half
    ELSE IF layer_index = layer_count - 1
         THEN Units(9, 10) - Units(8, 10) - RoundingGap
         ELSE Units(9, 10)
              - (Units(8, 10) * layer_index) \div (layer_count - 1)

\* Lines 174-185: the x of the node at place j of a layer
GroupX(sgs, real_subgraphs, layer, j) ==
    LET subgraph_id == get_node_subgraph(sgs, layer[j])
        group == { k \in 1..Len(layer) :
                     get_node_subgraph(sgs, layer[k]) = subgraph_id }
        group_count == Cardinality(group)
        node_index == Cardinality({ k \in group : k < j })
        base_x == SubgraphX(real_subgraphs, subgraph_id)
        offset == (Units(15, 100) * node_index) \div (group_count - 1)
                  - Units(75, 1000)
    IN IF group_count = 1 THEN base_x
       ELSE Clamp(base_x + offset, Units(5, 100), Units(95, 100))

RealSubgraphs(ns, sgs) ==
    { get_node_subgraph(sgs, ns[i].id) : i \in 1..Len(ns) } \ {NoSubgraph}

\* Lines 125-193: the first node of an id takes the place the layers give
\* the id last
position_nodes_by_layers(ns, sgs, layers, real_subgraphs) ==
    [i \in 1..Len(ns) |->
       LET first == Position(ns, ns[i].id) = i
           places == UNION { { << li, j >> :
                                 j \in { k \in 1..Len(layers[li]) :
                                           layers[li][k] = ns[i].id } } :
                             li \in 1..Len(layers) }
       IN IF ~first \/ places = {} THEN ns[i]
          ELSE LET p == CHOOSE q \in places : \A r \in places :
                           r[1] < q[1] \/ (r[1] = q[1] /\ r[2] <= q[2])
               IN [ns[i] EXCEPT
                     !.x = GroupX(sgs, real_subgraphs, layers[p[1]], p[2]),
                     !.y = LayerY(Len(layers), p[1] - 1)]]

\* Lines 30-123, for one order of the initial queue, one order of the
\* remaining nodes and one order of the subgraphs
apply_hierarchical_layout(ns, es, sgs, queue, remaining_nodes, real_subgraphs) ==
    LET layers == PlaceRemaining(es, remaining_nodes, 1,
                                 Kahn(ns, es, queue).layers)
    IN IF Len(layers) = 0 THEN ns
       ELSE position_nodes_by_layers(ns, sgs, layers, real_subgraphs)

\* The runs of apply_layout that abort: the grid of no node in every build,
\* an in-degree below zero in a build with overflow checks.
LayoutAborts(ns, es, l) ==
    \/ l = "Grid" /\ GridPanics(ns)
    \/ /\ l = "Hierarchical"
       /\ \E queue \in Orderings(ZeroDegreeKeys(ns, es)) :
             Kahn(ns, es, queue).underflow

LayoutAlgorithm == {"Hierarchical", "ForceDirected", "Circular", "Grid"}

\* The graphs a caller fills: the ids of the nodes in the order of their
\* push, the ids an edge may name, the subgraphs
LayoutIds == << << "a" >>, << "b" >>, << "c" >> >>

EdgeIds == { LayoutIds[i] : i \in 1..Len(LayoutIds) }

LayoutSubgraphs ==
    { [NewSubgraph("cluster_0") EXCEPT !.nodes = << << "a" >> >>],
      [NewSubgraph("cluster_0")
          EXCEPT !.nodes = << << "a" >>, << "b" >> >>],
      [NewSubgraph("cluster_1") EXCEPT !.nodes = << << "c" >> >>] }

MaxLayoutEdges == 2

\* The caller fills the graph before its first layout; every algorithm
\* writes the place of every node, so a later push adds no case.
Building == pc = "ready" /\ lresult = "none"

\* graph.nodes.push(Node { .. }), types.rs line 55
AddNode ==
    /\ Building
    /\ Len(nodes) < Len(LayoutIds)
    /\ nodes' = Append(nodes, NewNode(LayoutIds[Len(nodes) + 1]))
    /\ UNCHANGED << pc, result, brace_depth, current_subgraph, node_map,
                    dir_found, edges, subgraphs, directed, layout, lresult,
                    text, applied, hier, subplots, call >>

\* graph.edges.push(Edge { .. }), types.rs line 56
AddEdge(from, to) ==
    /\ Building
    /\ Len(edges) < MaxLayoutEdges
    /\ edges' = Append(edges, NewEdge(from, to, directed))
    /\ UNCHANGED << pc, result, brace_depth, current_subgraph, node_map,
                    dir_found, nodes, subgraphs, directed, layout, lresult,
                    text, applied, hier, subplots, call >>

\* graph.subgraphs.push(Subgraph { .. }), types.rs line 57
AddSubgraph(sg) ==
    /\ Building
    /\ \A i \in 1..Len(subgraphs) : subgraphs[i].id # sg.id
    /\ subgraphs' = Append(subgraphs, sg)
    /\ UNCHANGED << pc, result, brace_depth, current_subgraph, node_map,
                    dir_found, nodes, edges, directed, layout, lresult,
                    text, applied, hier, subplots, call >>

\* types.rs lines 81-83
set_layout(l) ==
    /\ pc = "ready"
    /\ layout' = l
    /\ UNCHANGED << pc, result, brace_depth, current_subgraph, node_map,
                    dir_found, nodes, edges, subgraphs, directed, lresult,
                    text, applied, hier, subplots, call >>

\* layout.rs lines 7-14, a run that completes
apply_layout ==
    /\ pc = "ready"
    /\ ~LayoutAborts(nodes, edges, layout)
    /\ CASE layout = "Hierarchical" ->
              \E queue \in Orderings(ZeroDegreeKeys(nodes, edges)) :
              \E remaining_nodes \in
                    Orderings(IdsOf(nodes)
                              \ Kahn(nodes, edges, queue).processed) :
              \E real_subgraphs \in Orderings(RealSubgraphs(nodes, subgraphs)) :
                 nodes' = apply_hierarchical_layout(nodes, edges, subgraphs,
                              queue, remaining_nodes, real_subgraphs)
         [] layout = "Circular" -> nodes' = apply_circular_layout(nodes)
         [] layout = "ForceDirected" ->
              nodes' = apply_force_directed_layout(nodes, edges)
         [] layout = "Grid" -> nodes' = apply_grid_layout(nodes)
    /\ lresult' = "ok"
    /\ applied' = Some(layout)
    /\ UNCHANGED << pc, result, brace_depth, current_subgraph, node_map,
                    dir_found, edges, subgraphs, directed, layout, text, hier, subplots, call >>

\* layout.rs lines 7-14, a run that aborts
apply_layout_aborts ==
    /\ pc = "ready"
    /\ LayoutAborts(nodes, edges, layout)
    /\ lresult' = "panic"
    /\ pc' = "done"
    /\ UNCHANGED << result, brace_depth, current_subgraph, node_map,
                    dir_found, nodes, edges, subgraphs, directed, layout,
                    text, applied, hier, subplots, call >>

\* DotGraph::new(true), types.rs lines 70-79
InitLayout ==
    /\ pc = "ready"
    /\ result = "none"
    /\ brace_depth = 0
    /\ current_subgraph = None
    /\ node_map = << >>
    /\ dir_found = FALSE
    /\ nodes = << >>
    /\ edges = << >>
    /\ subgraphs = << >>
    /\ directed = TRUE
    /\ layout = "Hierarchical"
    /\ lresult = "none"
    /\ applied = None
    /\ hier = None
    /\ call = None
    /\ subplots = << >>
    /\ text = << >>

NextLayout ==
    \/ AddNode
    \/ \E from, to \in EdgeIds : AddEdge(from, to)
    \/ \E sg \in LayoutSubgraphs : AddSubgraph(sg)
    \/ \E l \in LayoutAlgorithm : set_layout(l)
    \/ apply_layout
    \/ apply_layout_aborts

SpecLayout == InitLayout /\ [][NextLayout]_vars

\* The graphs of three nodes and at most MaxGraphEdges edges among them, as
\* parse_dot or a caller leaves them, and the layouts applied to them
MaxGraphEdges == 3

EdgeLists ==
    UNION { [1..k -> { NewEdge(from, to, TRUE) : from \in EdgeIds, to \in EdgeIds }] :
            k \in 0..MaxGraphEdges }

InitGraphs ==
    /\ pc = "ready"
    /\ result = "none"
    /\ brace_depth = 0
    /\ current_subgraph = None
    /\ node_map = << >>
    /\ dir_found = FALSE
    /\ nodes = [i \in 1..Len(LayoutIds) |-> NewNode(LayoutIds[i])]
    /\ edges \in EdgeLists
    /\ subgraphs = << >>
    /\ directed = TRUE
    /\ layout = "Hierarchical"
    /\ lresult = "none"
    /\ applied = None
    /\ hier = None
    /\ call = None
    /\ subplots = << >>
    /\ text = << >>

NextGraphs ==
    \/ \E l \in LayoutAlgorithm : set_layout(l)
    \/ apply_layout

SpecGraphs == InitGraphs /\ [][NextGraphs]_vars

(***************************************************************************)
(* The Hierarchical layout step by step: hier holds the locals of          *)
(* apply_hierarchical_layout while it runs.  One step is one iteration of  *)
(* the loop over the queue (layout.rs 62-88) or of the loop over the       *)
(* remaining nodes (layout.rs 96-118); the loops inside an iteration run   *)
(* over a vector or a fixed count.                                         *)
(***************************************************************************)
\* Lines 33-60
BeginHierarchical ==
    /\ pc = "ready"
    /\ layout = "Hierarchical"
    /\ lresult = "none"
    /\ \E queue \in Orderings(ZeroDegreeKeys(nodes, edges)) :
          hier' = Some([queue |-> queue,
                        current_in_degree |-> in_degree(nodes, edges),
                        current_layer |-> << >>, processed |-> {},
                        layers |-> << >>, underflow |-> FALSE,
                        remaining_nodes |-> << >>, phase |-> "queue"])
    /\ pc' = "layering"
    /\ UNCHANGED << result, brace_depth, current_subgraph, node_map, dir_found,
                    nodes, edges, subgraphs, directed, layout, lresult,
                    applied, text, subplots, call >>

\* Lines 62-88: one iteration of `while !queue.is_empty()`
DrainStep ==
    /\ pc = "layering"
    /\ hier[1].phase = "queue"
    /\ hier[1].queue # << >>
    /\ LET drained == DrainLayer(edges, Len(hier[1].queue),
                                 [hier[1] EXCEPT !.current_layer = << >>])
       IN hier' = Some([drained EXCEPT
                          !.layers = IF drained.current_layer # << >>
                                     THEN Append(@, drained.current_layer)
                                     ELSE @])
    /\ UNCHANGED << pc, result, brace_depth, current_subgraph, node_map,
                    dir_found, nodes, edges, subgraphs, directed, layout,
                    lresult, applied, text, subplots, call >>

\* Lines 90-92: the queue is empty, the unreached nodes are collected
CollectRemaining ==
    /\ pc = "layering"
    /\ hier[1].phase = "queue"
    /\ hier[1].queue = << >>
    /\ \E remaining_nodes \in Orderings(IdsOf(nodes) \ hier[1].processed) :
          hier' = Some([hier[1] EXCEPT !.remaining_nodes = remaining_nodes,
                                       !.phase = "remaining"])
    /\ UNCHANGED << pc, result, brace_depth, current_subgraph, node_map,
                    dir_found, nodes, edges, subgraphs, directed, layout,
                    lresult, applied, text, subplots, call >>

\* Lines 96-118: one iteration of `for node_id in remaining_nodes`
PlaceStep ==
    /\ pc = "layering"
    /\ hier[1].phase = "remaining"
    /\ hier[1].remaining_nodes # << >>
    /\ hier' = Some([hier[1] EXCEPT
                       !.layers = PlaceRemaining(edges,
                                     << Head(hier[1].remaining_nodes) >>, 1, @),
                       !.remaining_nodes = Tail(@)])
    /\ UNCHANGED << pc, result, brace_depth, current_subgraph, node_map,
                    dir_found, nodes, edges, subgraphs, directed, layout,
                    lresult, applied, text, subplots, call >>

\* Lines 121-122: the layers are complete, the nodes are placed
PositionStep ==
    /\ pc = "layering"
    /\ hier[1].phase = "remaining"
    /\ hier[1].remaining_nodes = << >>
    /\ \E real_subgraphs \in Orderings(RealSubgraphs(nodes, subgraphs)) :
          nodes' = IF Len(hier[1].layers) = 0 THEN nodes
                   ELSE position_nodes_by_layers(nodes, subgraphs,
                                                 hier[1].layers, real_subgraphs)
    /\ hier' = Some([hier[1] EXCEPT !.phase = "done"])
    /\ pc' = "ready"
    /\ lresult' = "ok"
    /\ applied' = Some("Hierarchical")
    /\ UNCHANGED << result, brace_depth, current_subgraph, node_map, dir_found,
                    edges, subgraphs, directed, layout, text, subplots, call >>

NextHierarchical ==
    \/ BeginHierarchical
    \/ DrainStep
    \/ CollectRemaining
    \/ PlaceStep
    \/ PositionStep

\* apply_hierarchical_layout is sequential code: a step that can be taken
\* is taken
SpecHierarchical ==
    InitGraphs /\ [][NextHierarchical]_vars /\ WF_vars(NextHierarchical)

\* The graphs of up to MaxGridNodes nodes and no edge, and their layouts
MaxGridNodes == 4

GridIds == << << "a" >>, << "b" >>, << "c" >>, << "a0" >>, << "a1" >> >>

\* graph.nodes.push(Node { .. }), types.rs line 55
PushNode ==
    /\ Building
    /\ Len(nodes) < MaxGridNodes
    /\ nodes' = Append(nodes, NewNode(GridIds[Len(nodes) + 1]))
    /\ UNCHANGED << pc, result, brace_depth, current_subgraph, node_map,
                    dir_found, edges, subgraphs, directed, layout, lresult,
                    applied, text, hier, subplots, call >>

NextGrid ==
    \/ PushNode
    \/ \E l \in LayoutAlgorithm : set_layout(l)
    \/ apply_layout
    \/ apply_layout_aborts

SpecGrid == InitLayout /\ [][NextGrid]_vars

(***************************************************************************)
(* Rendering.  An Axes is its plots, the series in the order of their      *)
(* push, and its custom_svg_elements, the raw fragments in the order of    *)
(* their push.  The data of a series is named by what it was computed      *)
(* from: the curve between two nodes, the point of a node, the box around  *)
(* the members of a subgraph.  A raw fragment is named by its fill, its    *)
(* stroke and what its points were computed from.                          *)
(***************************************************************************)
\* Axes::new()
AxesNew == [plots |-> << >>, custom_svg_elements |-> << >>]

\* The default colour cycle
get_cycle_color(index) == << "cycle", index % 10 >>

\* Plot::line
PlotLine(data) ==
    [plot_type |-> "Line", data |-> data, color |-> get_cycle_color(0),
     marker |-> "None", marker_size |-> 6, line_width |-> 20,
     label |-> None]

\* Plot::scatter
PlotScatter(data) ==
    [plot_type |-> "Scatter", data |-> data, color |-> get_cycle_color(0),
     marker |-> "Circle", marker_size |-> 6, line_width |-> 0,
     label |-> None]

\* Axes::plot
AxesPlot(axes, data) ==
    [axes EXCEPT !.plots =
        Append(@, [PlotLine(data)
                      EXCEPT !.color = get_cycle_color(Len(axes.plots))])]

\* Axes::scatter
AxesScatter(axes, data) ==
    [axes EXCEPT !.plots =
        Append(@, [PlotScatter(data)
                      EXCEPT !.color = get_cycle_color(Len(axes.plots))])]

\* Axes::add_svg_element
add_svg_element(axes, svg_element) ==
    [axes EXCEPT !.custom_svg_elements = Append(@, svg_element)]

\* axes.plots.last_mut(), then the assignment of its fields
SetLast(axes, fields) ==
    LET n == Len(axes.plots)
    IN [axes EXCEPT !.plots[n] =
          [f \in DOMAIN @ |-> IF f \in DOMAIN fields THEN fields[f] ELSE @[f]]]

MinOf(S) == CHOOSE v \in S : \A w \in S : v <= w
MaxOf(S) == CHOOSE v \in S : \A w \in S : w <= v

\* utils::calculate_range, on the values of a sequence
calculate_range(data) ==
    IF Len(data) = 0 THEN << 0, Scale >>
    ELSE LET S == { data[i] : i \in 1..Len(data) }
             min_val == MinOf(S)
             max_val == MaxOf(S)
             padding == IF min_val = 0 THEN Scale ELSE min_val \div 10
         IN IF min_val = max_val
            THEN << min_val - padding, max_val + padding >>
            ELSE << min_val, max_val >>

\* A count of pixels, in hundredths of a pixel
Pixels(n) == n * 100

\* utils::map_range and utils::lerp, onto a range of pixels
map_range(value, from_min, from_max, to_min, to_max) ==
    IF from_max = from_min THEN Pixels(to_min)
    ELSE Pixels(to_min)
         + (Pixels(to_max - to_min) * (value - from_min))
              \div (from_max - from_min)

\* The node of an id, as self.nodes.iter().find(|n| n.id == id) gives it
FindNode(ns, id) ==
    LET found == { i \in 1..Len(ns) : ns[i].id = id }
    IN IF found = {} THEN None ELSE Some(ns[MinOf(found)])

\* The nodes of a subgraph, renderer.rs lines 84-88
subgraph_nodes(ns, subgraph) ==
    SelectSeq(ns, LAMBDA n : SeqContains(subgraph.nodes, n.id))

\* The bounding box of lines 94-113
BoundingBox(members) ==
    LET xs == { members[i].x : i \in 1..Len(members) }
        ys == { members[i].y : i \in 1..Len(members) }
    IN [kind |-> "box",
        min_x |-> MinOf(xs) - Units(5, 100), max_x |-> MaxOf(xs) + Units(5, 100),
        min_y |-> MinOf(ys) - Units(5, 100), max_y |-> MaxOf(ys) + Units(5, 100)]

\* renderer.rs lines 78-179.  The series of line 131 is pushed and popped
\* again, so the plots are left as they were; the axes are fresh, so that
\* the range of the fragment is the range of all the nodes (lines 135-142).
render_subgraph_background(ns, axes, subgraph) ==
    IF Len(subgraph.nodes) = 0 \/ Len(subgraph_nodes(ns, subgraph)) = 0
    THEN axes
    ELSE IF subgraph.style = Some("filled")
    THEN LET fill_color == IF subgraph.fill_color # None
                           THEN subgraph.fill_color[1] ELSE "lightgrey"
             pushed == AxesPlot(axes, BoundingBox(subgraph_nodes(ns, subgraph)))
             popped == [pushed EXCEPT !.plots = SubSeq(@, 1, Len(@) - 1)]
         IN add_svg_element(popped,
               [fill |-> fill_color, stroke |-> "none",
                points |-> BoundingBox(subgraph_nodes(ns, subgraph))])
    ELSE axes

\* renderer.rs lines 181-237
render_subgraph_border(ns, axes, subgraph) ==
    IF Len(subgraph.nodes) = 0 \/ Len(subgraph_nodes(ns, subgraph)) = 0
    THEN axes
    ELSE LET border_color ==
                 IF subgraph.color = Some("lightgrey") THEN "GRAY"
                 ELSE IF subgraph.color = Some("blue") THEN "BLUE"
                 ELSE "BLACK"
         IN SetLast(AxesPlot(axes, BoundingBox(subgraph_nodes(ns, subgraph))),
                    [color |-> border_color, line_width |-> 20])

\* renderer.rs lines 239-321: the length of line 259 is positive when the
\* two ends differ in their pixel
ArrowLength(ns, from, to) ==
    LET xr == calculate_range([i \in 1..Len(ns) |-> ns[i].x])
        yr == calculate_range([i \in 1..Len(ns) |-> ns[i].y])
        dx == map_range(to.x, xr[1], xr[2], 0, 680)
              - map_range(from.x, xr[1], xr[2], 0, 680)
        dy == map_range(to.y, yr[1], yr[2], 480, 0)
              - map_range(from.y, yr[1], yr[2], 480, 0)
    IN IF dx = 0 /\ dy = 0 THEN 0 ELSE 1

\* renderer.rs lines 239-321
add_arrow(ns, axes, from, to) ==
    IF ArrowLength(ns, from, to) > 0
    THEN add_svg_element(axes,
            [fill |-> "black", stroke |-> "black",
             points |-> [kind |-> "arrow", from |-> from.id, to |-> to.id]])
    ELSE axes

\* An edge drawn whether or not its ends are nodes of the graph
RenderEdgeUnchecked(ns, axes, edge) ==
    SetLast(AxesPlot(axes, [kind |-> "curve", from |-> edge.from,
                            to |-> edge.to]),
            [color |-> edge.color, line_width |-> 20])

\* An edge drawn with an arrow whatever its directed flag
RenderEdgeArrowed(ns, axes, edge) ==
    LET from_node == FindNode(ns, edge.from)
        to_node == FindNode(ns, edge.to)
        plotted == RenderEdgeUnchecked(ns, axes, edge)
    IN IF from_node # None /\ to_node # None
       THEN add_svg_element(plotted,
               [fill |-> "black", stroke |-> "black",
                points |-> [kind |-> "arrow", from |-> edge.from,
                            to |-> edge.to]])
       ELSE axes

\* Lines 16-42, one edge
RenderEdge(ns, axes, edge) ==
    LET from_node == FindNode(ns, edge.from)
        to_node == FindNode(ns, edge.to)
    IN IF from_node # None /\ to_node # None
       THEN LET plotted ==
                  SetLast(AxesPlot(axes, [kind |-> "curve",
                                          from |-> edge.from,
                                          to |-> edge.to]),
                          [color |-> edge.color,
                           line_width |-> IF edge.style = "Dotted"
                                          THEN 15 ELSE 20])
            IN IF edge.directed
               THEN add_arrow(ns, plotted, from_node[1], to_node[1])
               ELSE plotted
       ELSE axes

\* Lines 46-70, one node
RenderNode(axes, node) ==
    SetLast(AxesScatter(axes, [kind |-> "point", x |-> node.x, y |-> node.y]),
            [marker |-> IF node.shape = "Rectangle" THEN "Square"
                        ELSE node.shape,
             marker_size |-> IF node.shape \in {"Mdiamond", "Msquare"}
                             THEN 50 ELSE 15,
             color |-> node.color,
             label |-> node.label])

RECURSIVE Backgrounds(_, _, _, _)
Backgrounds(ns, sgs, i, axes) ==
    IF i > Len(sgs) THEN axes
    ELSE Backgrounds(ns, sgs, i + 1,
                     render_subgraph_background(ns, axes, sgs[i]))

RECURSIVE RenderEdges(_, _, _, _)
RenderEdges(ns, es, i, axes) ==
    IF i > Len(es) THEN axes
    ELSE RenderEdges(ns, es, i + 1, RenderEdge(ns, axes, es[i]))

RECURSIVE RenderNodes(_, _, _)
RenderNodes(ns, i, axes) ==
    IF i > Len(ns) THEN axes
    ELSE RenderNodes(ns, i + 1, RenderNode(axes, ns[i]))

RECURSIVE Borders(_, _, _, _)
Borders(ns, sgs, i, axes) ==
    IF i > Len(sgs) THEN axes
    ELSE Borders(ns, sgs, i + 1, render_subgraph_border(ns, axes, sgs[i]))

\* renderer.rs lines 9-76
RenderToAxes(ns, es, sgs, axes) ==
    Borders(ns, sgs, 1,
       RenderNodes(ns, 1,
          RenderEdges(ns, es, 1,
             Backgrounds(ns, sgs, 1, axes))))

\* Axes::to_svg, axes.rs lines 323-433: what is drawn, first to last.  The
\* grid, the axes and the outer border are drawn since no series is a pie;
\* the legend is off.
to_svg(axes) ==
    << [item |-> "background"] >>
    \o << [item |-> "grid"] >>
    \o [i \in 1..Len(axes.plots) |-> [item |-> "plot", plot |-> axes.plots[i]]]
    \o << [item |-> "axes"] >>
    \o << [item |-> "labels"] >>
    \o [i \in 1..Len(axes.custom_svg_elements) |->
          [item |-> "custom", element |-> axes.custom_svg_elements[i]]]
    \o << [item |-> "border"] >>

\* The call of Figure::add_subplot at figure.rs line 79, lines 62-66
add_subplot ==
    /\ pc = "called"
    /\ subplots' = Append(subplots, AxesNew)
    /\ pc' = "parsing"
    /\ UNCHANGED << result, brace_depth, current_subgraph, node_map,
                    dir_found, nodes, edges, subgraphs, directed, layout,
                    lresult, applied, text, hier, call >>

\* graph.render_to_axes(axes) on the last Axes, which is fresh; the graph is
\* not touched afterwards
render_to_axes ==
    /\ pc = "ready"
    /\ subplots # << >>
    /\ subplots[Len(subplots)] = AxesNew
    /\ subplots' = [subplots EXCEPT ![Len(subplots)] =
                       RenderToAxes(nodes, edges, subgraphs, @)]
    /\ pc' = "rendered"
    /\ UNCHANGED << result, brace_depth, current_subgraph, node_map,
                    dir_found, nodes, edges, subgraphs, directed, layout,
                    lresult, applied, text, hier, call >>

\* Figure::new(), and the call of add_dot_subplot_with_layout begun
InitFigure ==
    /\ pc = "called"
    /\ result = "none"
    /\ brace_depth = 0
    /\ current_subgraph = None
    /\ node_map = << >>
    /\ dir_found = FALSE
    /\ nodes = << >>
    /\ edges = << >>
    /\ subgraphs = << >>
    /\ directed = TRUE
    /\ layout = "Hierarchical"
    /\ lresult = "none"
    /\ applied = None
    /\ hier = None
    /\ call = None
    /\ subplots = << >>
    /\ text = << >>

\* figure.rs lines 74-90 on the texts of at most MaxLines lines of Catalogue:
\* the subplot, the parse, the layout of the argument, its run, the rendering.
\* A parsed graph has a node and no edge of a missing end, so that no run of
\* a layout aborts.
NextFigure ==
    \/ add_subplot
    \/ \E line \in Catalogue : Len(text) < MaxLines /\ ParseLine(line)
    \/ \E line \in Catalogue : Len(text) < MaxLines /\ ParseLineAborts(line)
    \/ Finish
    \/ \E l \in LayoutAlgorithm : lresult = "none" /\ set_layout(l)
    \/ lresult = "none" /\ apply_layout
    \/ lresult = "ok" /\ render_to_axes

SpecFigure == InitFigure /\ [][NextFigure]_vars

\* The graphs a caller renders: the first nodes of LayoutIds, edges between
\* ids that are or are not among them, of either directed flag, subgraphs of
\* members present or absent, filled or not
RenderEnds ==
    { << << "a" >>, << "b" >> >>, << << "b" >>, << "a" >> >>,
      << << "a" >>, << "a" >> >>, << << "b" >>, << "c" >> >>,
      << << "c" >>, << "a" >> >> }

RenderEdgeLists ==
    UNION { [1..k -> { NewEdge(ends[1], ends[2], dir) :
                         ends \in RenderEnds, dir \in BOOLEAN }] :
            k \in 0..MaxLayoutEdges }

RenderSubgraphs ==
    { << >>,
      << [NewSubgraph("cluster_0")
             EXCEPT !.nodes = << << "a" >>, << "b" >> >>,
                    !.style = Some("filled"),
                    !.fill_color = Some("lightblue")] >>,
      << [NewSubgraph("cluster_0")
             EXCEPT !.nodes = << << "a" >> >>, !.style = Some("filled")],
         [NewSubgraph("cluster_1")
             EXCEPT !.nodes = << << "c" >> >>, !.color = Some("blue")] >>,
      << [NewSubgraph("cluster_1")
             EXCEPT !.nodes = << << "c" >> >>, !.style = Some("filled")],
         NewSubgraph("cluster_2") >> }

InitRender ==
    /\ pc = "ready"
    /\ result = "none"
    /\ brace_depth = 0
    /\ current_subgraph = None
    /\ node_map = << >>
    /\ dir_found = FALSE
    /\ \E k \in 0..Len(LayoutIds) :
          nodes = [i \in 1..k |-> NewNode(LayoutIds[i])]
    /\ edges \in RenderEdgeLists
    /\ subgraphs \in RenderSubgraphs
    /\ directed = TRUE
    /\ layout \in LayoutAlgorithm
    /\ lresult = "none"
    /\ applied = None
    /\ hier = None
    /\ call = None
    /\ subplots = << AxesNew >>
    /\ text = << >>

\* A caller that lays the graph out, or does not, and renders it
NextRender ==
    \/ lresult = "none" /\ apply_layout
    \/ lresult = "none" /\ apply_layout_aborts
    \/ render_to_axes

SpecRender == InitRender /\ [][NextRender]_vars

(***************************************************************************)
(* calculate_range called on the slices of at most MaxData values, which   *)
(* are positive, zero or negative tenths of Scale.                         *)
(***************************************************************************)
MaxData == 3

DataValues == { Units(k, 10) : k \in {-20, -5, 0, 5, 20} }

DataSlices == UNION { [1..n -> DataValues] : n \in 1..MaxData }

InitRange ==
    /\ pc = "called"
    /\ result = "none"
    /\ brace_depth = 0
    /\ current_subgraph = None
    /\ node_map = << >>
    /\ dir_found = FALSE
    /\ nodes = << >>
    /\ edges = << >>
    /\ subgraphs = << >>
    /\ directed = TRUE
    /\ layout = "Hierarchical"
    /\ lresult = "none"
    /\ applied = None
    /\ hier = None
    /\ subplots = << >>
    /\ text = << >>
    /\ \E data \in DataSlices : call = [data |-> data, returned |-> None]

\* utils.rs lines 6-31
CalculateRange ==
    /\ pc = "called"
    /\ call.returned = None
    /\ call' = [call EXCEPT !.returned = Some(calculate_range(call.data))]
    /\ pc' = "done"
    /\ UNCHANGED << result, brace_depth, current_subgraph, node_map,
                    dir_found, nodes, edges, subgraphs, directed, layout,
                    lresult, applied, text, hier, subplots >>

NextRange == CalculateRange

SpecRange == InitRange /\ [][NextRange]_vars

\* parse_dot on the texts of at most MaxClosingLines lines that open and
\* close subgraphs, on lines of their own or on one line
MaxClosingLines == 5

ClosingCatalogue ==
    { <<"digraph", "G", "{">>,
      <<"subgraph", "cluster_0", "{">>,
      <<"subgraph", "s", "{", "a", ";", "}">>,
      <<"color", "=", "lightgrey", ";">>,
      <<"a", ";">>,
      <<"b", ";">>,
      <<"}">> }

NextClosing ==
    \/ \E line \in ClosingCatalogue :
          Len(text) < MaxClosingLines /\ ParseLine(line)
    \/ \E line \in ClosingCatalogue :
          Len(text) < MaxClosingLines /\ ParseLineAborts(line)
    \/ Finish

SpecClosing == Init /\ [][NextClosing]_vars

\* parse_dot on the texts of at most MaxAttributeLines lines of a subgraph
\* and its attributes, bare or quoted, and its node defaults
MaxAttributeLines == 4

AttributeCatalogue ==
    { <<"subgraph", "cluster_0", "{">>,
      <<"label", "=", QUOTE, "process", QUOTE, ";">>,
      <<"label", "=", "process", ";">>,
      <<"style", "=", QUOTE, "filled", QUOTE, ";">>,
      <<"style", "=", "filled", ";">>,
      <<"color", "=", QUOTE, "blue", QUOTE, ";">>,
      <<"color", "=", "blue", ";">>,
      <<"node", "[", "style", "=", "filled", ",", "color", "=", "white", "]", ";">>,
      <<"node", "[", "style", "=", "filled", "]", ";">>,
      <<"node", "[", "color", "=", "white", "]", ";">>,
      <<"a", ";">>,
      <<"a", "]", "[">>,
      <<"}">> }

NextAttributes ==
    \/ \E line \in AttributeCatalogue :
          Len(text) < MaxAttributeLines /\ ParseLine(line)
    \/ \E line \in AttributeCatalogue :
          Len(text) < MaxAttributeLines /\ ParseLineAborts(line)
    \/ Finish

SpecAttributes == Init /\ [][NextAttributes]_vars

\* parse_dot on the texts of at most MaxNodeLines lines that name one node by
\* several statements, attributed, bare, edge and chain, in or out of a
\* subgraph
MaxNodeLines == 4

NodeCatalogue ==
    { <<"subgraph", "cluster_0", "{">>,
      <<"a", "[", "color", "=", "red", "]", ";">>,
      <<"a", "[", "shape", "=", "box", "]", ";">>,
      <<"a", "[", "shape", "=", "hexagon", ",", "color", "=", "teal", "]", ";">>,
      <<"a", "[", "label", "=", QUOTE, "start", QUOTE, "]", ";">>,
      <<"a", ";">>,
      <<"a", "->", "b", ";">>,
      <<"a", "->", "b", "->", "a", ";">>,
      <<"a", "]", "[">> }

NextNodes ==
    \/ \E line \in NodeCatalogue :
          Len(text) < MaxNodeLines /\ ParseLine(line)
    \/ \E line \in NodeCatalogue :
          Len(text) < MaxNodeLines /\ ParseLineAborts(line)
    \/ Finish

SpecNodes == Init /\ [][NextNodes]_vars

\* The x_data and y_data of a series, for the point of a node and the box of
\* a subgraph; the points of the curve of an edge are not computed
SeriesData(plot) ==
    IF plot.data.kind = "point"
    THEN [x |-> << plot.data.x >>, y |-> << plot.data.y >>]
    ELSE [x |-> << plot.data.min_x, plot.data.max_x, plot.data.max_x,
                   plot.data.min_x, plot.data.min_x >>,
          y |-> << plot.data.min_y, plot.data.min_y, plot.data.max_y,
                   plot.data.max_y, plot.data.min_y >>]

RECURSIVE AllData(_, _)
AllData(plots, i) ==
    IF i > Len(plots) THEN [x |-> << >>, y |-> << >>]
    ELSE [x |-> SeriesData(plots[i]).x \o AllData(plots, i + 1).x,
          y |-> SeriesData(plots[i]).y \o AllData(plots, i + 1).y]

\* Axes::calculate_data_ranges, no limit being set
calculate_data_ranges(axes) ==
    IF Len(axes.plots) = 0 THEN << << 0, Scale >>, << 0, Scale >> >>
    ELSE << calculate_range(AllData(axes.plots, 1).x),
            calculate_range(AllData(axes.plots, 1).y) >>

\* The pixel at which Axes::to_svg(width, height) draws a point of a series:
\* the margin and the plot area of to_svg, the mapping of the series
SeriesPixel(axes, width, height, x, y) ==
    LET ranges == calculate_data_ranges(axes)
    IN << Pixels(60)
          + map_range(x, ranges[1][1], ranges[1][2], 0, width - 2 * 60),
          Pixels(60)
          + map_range(y, ranges[2][1], ranges[2][2], height - 2 * 60, 0) >>

\* The pixel at which render_to_axes puts a vertex of a raw fragment, on a
\* fresh Axes: the range of the nodes, a plot area of 680 by 480, a margin
\* of 60
FragmentPixel(ns, x, y) ==
    LET xr == calculate_range([i \in 1..Len(ns) |-> ns[i].x])
        yr == calculate_range([i \in 1..Len(ns) |-> ns[i].y])
    IN << Pixels(60) + map_range(x, xr[1], xr[2], 0, 680),
          Pixels(60) + map_range(y, yr[1], yr[2], 480, 0) >>

\* The sizes of a figure: a width and a height
FigureSizes == { << 800, 600 >>, << 1200, 900 >> }

(***************************************************************************)
(* What the properties speak of.                                           *)
(***************************************************************************)
Returned == result \in {"Ok", "Err"}

NodeIds == { nodes[i].id : i \in 1..Len(nodes) }

\* A name of the line that stands outside an attribute list
InBrackets(line, i) ==
    /\ \E j \in 1..(i - 1) : line[j] = "["
    /\ \E j \in (i + 1)..Len(line) : line[j] = "]"

NamedBy(line) ==
    { << line[i] >> : i \in {j \in 1..Len(line) :
                               line[j] \in NodeNames /\ ~InBrackets(line, j)} }

\* A line holding one bare-node, attributed-node, edge or chain statement
IsNodeStatement(line) ==
    /\ Len(line) >= 2
    /\ line[1] \in NodeNames
    /\ EndsWith(line, ";")
    /\ ~Contains(line, "{") /\ ~Contains(line, "}")
    /\ Find(line, "[") = 0 <=> Find(line, "]") = 0
    /\ Find(line, "[") <= Find(line, "]")

\* The distinct node identifiers of a text made of statements
Named(t) == UNION { NamedBy(t[i]) : i \in 1..Len(t) }

\* An edge or chain statement without attribute list: names joined by one
\* kind of separator
SeparatorOf(line) == IF Contains(line, "->") THEN "->" ELSE "--"

IsEdgeStatement(line) ==
    /\ IsNodeStatement(line)
    /\ ~Contains(line, "[")
    /\ Contains(line, "->") # Contains(line, "--")
    /\ \A i \in 1..(Len(line) - 1) :
          IF i % 2 = 1 THEN line[i] \in NodeNames
          ELSE line[i] = SeparatorOf(line)

\* The edges an edge statement stands for: one per adjacent pair of names
StatedEdges(line) ==
    [i \in 1..((Len(line) - 2) \div 2) |->
        [from |-> << line[2 * i - 1] >>, to |-> << line[2 * i + 1] >>,
         directed |-> (SeparatorOf(line) = "->")]]

Ends(es) ==
    [i \in 1..Len(es) |->
        [from |-> es[i].from, to |-> es[i].to, directed |-> es[i].directed]]

\* The names of the `subgraph <name>` lines of a text, in text order
RECURSIVE Opened(_)
Opened(t) ==
    IF t = << >> THEN << >>
    ELSE Opened(SubSeq(t, 1, Len(t) - 1)) \o
         (IF StartsWith(t[Len(t)], "subgraph") /\ Len(t[Len(t)]) >= 2
          THEN << t[Len(t)][2] >> ELSE << >>)

SubgraphIds == [i \in 1..Len(subgraphs) |-> subgraphs[i].id]

(***************************************************************************)
(* C1  Referential integrity of a parsed graph: when parse_dot returns Ok, *)
(* the `from` and the `to` of every edge and every id of every subgraph's  *)
(* member list is the id of a node of graph.nodes.                         *)
(***************************************************************************)
C1_ReferentialIntegrity ==
    result = "Ok" =>
        /\ \A i \in 1..Len(edges) :
              edges[i].from \in NodeIds /\ edges[i].to \in NodeIds
        /\ \A k \in 1..Len(subgraphs) :
              \A i \in 1..Len(subgraphs[k].nodes) :
                 subgraphs[k].nodes[i] \in NodeIds

\* A returned graph with a single edge and a chain, the chain inside a subgraph
C1_Witness ==
    /\ result = "Ok"
    /\ Len(edges) >= 3
    /\ \E k \in 1..Len(subgraphs) : Len(subgraphs[k].nodes) >= 3

(***************************************************************************)
(* C2  Round-trip node count: for a text of bare-node, attributed-node,    *)
(* edge and chain statements naming N distinct node identifiers, parse_dot *)
(* returns a graph with exactly N nodes, whose ids are pairwise distinct   *)
(* and are exactly those identifiers.                                      *)
(***************************************************************************)
C2_RoundTripNodeCount ==
    (Returned /\ text # << >> /\ \A i \in 1..Len(text) : IsNodeStatement(text[i])) =>
        /\ result = "Ok"
        /\ NodeIds = Named(text)
        /\ Len(nodes) = Cardinality(Named(text))

(***************************************************************************)
(* C3  parse_dot returns the error value exactly when, at the end of the   *)
(* input, no node has been discovered (as for `digraph G {}`); a graph     *)
(* returned as Ok has at least one node.                                   *)
(***************************************************************************)
C3_EmptyGraphError ==
    /\ Returned => (result = "Err" <=> DOMAIN node_map = {})
    /\ result = "Ok" => Len(nodes) >= 1
    /\ (Returned /\ text = << <<"digraph", "G", "{", "}">> >>) => result = "Err"

C3_Witness ==
    /\ result = "Err"
    /\ text = << <<"digraph", "G", "{", "}">> >>

(***************************************************************************)
(* C4  parse_dot never aborts: on every text it runs to completion and     *)
(* returns Ok or the error value.                                          *)
(***************************************************************************)
C4_NeverAborts == result # "panic"

(***************************************************************************)
(* C5  Statements on the header line are parsed: the one-line text         *)
(* `digraph G { a -> b; b -> c; }` gives Ok with the nodes a, b, c and the *)
(* directed edges a->b, b->c in that order; the one-line text              *)
(* `graph G { a -- b; }` gives Ok with one edge, not directed.             *)
(***************************************************************************)
C5_HeaderLineStatements ==
    /\ (pc # "parsing" /\ text = << <<"digraph", "G", "{", "a", "->", "b", ";",
                                     "b", "->", "c", ";", "}">> >>) =>
          /\ result = "Ok"
          /\ NodeIds = { <<"a">>, <<"b">>, <<"c">> }
          /\ Len(nodes) = 3
          /\ Ends(edges) = << [from |-> <<"a">>, to |-> <<"b">>, directed |-> TRUE],
                              [from |-> <<"b">>, to |-> <<"c">>, directed |-> TRUE] >>
    /\ (pc # "parsing" /\ text = << <<"graph", "G", "{", "a", "--", "b", ";", "}">> >>) =>
          /\ result = "Ok"
          /\ Len(edges) = 1
          /\ edges[1].directed = FALSE

(***************************************************************************)
(* C6  An edge or chain statement on its own line appends one edge per     *)
(* adjacent pair of its names, in left-to-right order (k names give k-1    *)
(* edges), each directed iff the statement uses `->` and undirected iff it *)
(* uses `--`, whatever keyword introduced the graph.                       *)
(***************************************************************************)
C6_EdgeStatements ==
    [][\A line \in Catalogue :
          (IsEdgeStatement(line) /\ ParseLine(line)) =>
              Ends(edges') = Ends(edges) \o StatedEdges(line)]_vars

(***************************************************************************)
(* C7  The subgraph scenario: the text with a subgraph cluster_0 whose     *)
(* body is `style=filled; color=lightgrey; a0 -> a1;` parses to exactly    *)
(* one Subgraph, with id cluster_0, style "filled", fill_color             *)
(* "lightgrey" and a member list holding a0 and a1.                        *)
(***************************************************************************)
ScenarioText ==
    << <<"digraph", "G", "{">>,
       <<"subgraph", "cluster_0", "{">>,
       <<"style", "=", "filled", ";">>,
       <<"color", "=", "lightgrey", ";">>,
       <<"a0", "->", "a1", ";">>,
       <<"}">>,
       <<"}">> >>

C7_SubgraphScenario ==
    (pc # "parsing" /\ text = ScenarioText) =>
        /\ result = "Ok"
        /\ Len(subgraphs) = 1
        /\ subgraphs[1].id = "cluster_0"
        /\ subgraphs[1].style = Some(<<"filled">>)
        /\ subgraphs[1].fill_color = Some(<<"lightgrey">>)
        /\ SeqContains(subgraphs[1].nodes, <<"a0">>)
        /\ SeqContains(subgraphs[1].nodes, <<"a1">>)

(***************************************************************************)
(* C8  Every subgraph opened by a `subgraph <name>` line is in             *)
(* graph.subgraphs exactly once, in the order of opening: none is lost     *)
(* and none is appended twice.                                             *)
(***************************************************************************)
C8_SubgraphsKept ==
    result = "Ok" => SubgraphIds = Opened(text)

(***************************************************************************)
(* C9  apply_layout never fails: for every graph, the graph of no node     *)
(* that DotGraph::new builds included, and for each of the four            *)
(* algorithms, apply_layout runs to completion without aborting.           *)
(***************************************************************************)
C9_ApplyLayoutCompletes == lresult # "panic"

InUnit(v) == 0 <= v /\ v <= Scale

InBand(v, lo, hi) == lo <= v /\ v <= hi

ResetPositions(ns) == [i \in 1..Len(ns) |-> [ns[i] EXCEPT !.x = 0, !.y = 0]]

\* The results the Hierarchical layout can give for a graph, over the orders
\* in which its maps and sets yield their keys
HierarchicalResults(ns, es, sgs) ==
    UNION { UNION { { apply_hierarchical_layout(ns, es, sgs, q, r, c) :
                        c \in Orderings(RealSubgraphs(ns, sgs)) } :
                    r \in Orderings(IdsOf(ns) \ Kahn(ns, es, q).processed) } :
            q \in Orderings(ZeroDegreeKeys(ns, es)) }

\* The results apply_layout can give for a graph
LayoutResults(ns, es, sgs, l) ==
    CASE l = "Hierarchical" -> HierarchicalResults(ns, es, sgs)
      [] l = "Circular" -> { apply_circular_layout(ns) }
      [] l = "ForceDirected" -> { apply_force_directed_layout(ns, es) }
      [] l = "Grid" -> { apply_grid_layout(ns) }

(***************************************************************************)
(* C11  Layout determinism: for Hierarchical, Circular and Grid, two runs  *)
(* of apply_layout on graphs with the same nodes in the same order, the    *)
(* same edges and the same subgraphs give every node the same (x, y): the  *)
(* result depends neither on the iteration order of the hash maps and      *)
(* sets nor on the nodes' previous coordinates.                            *)
(***************************************************************************)
C11_LayoutDeterminism ==
    [][(apply_layout /\ layout \in {"Hierarchical", "Circular", "Grid"}) =>
          \A other \in LayoutResults(ResetPositions(nodes), edges, subgraphs,
                                     layout) :
             nodes' = other]_vars

\* The layers of the Hierarchical layout: the Kahn layering for one order of
\* the initial queue, then the unreached nodes in one order
LayersOf(ns, es, queue, remaining_nodes) ==
    PlaceRemaining(es, remaining_nodes, 1, Kahn(ns, es, queue).layers)

\* The layerings the Hierarchical layout can build for a graph
Layerings(ns, es) ==
    UNION { { LayersOf(ns, es, q, r) :
                r \in Orderings(IdsOf(ns) \ Kahn(ns, es, q).processed) } :
            q \in Orderings(ZeroDegreeKeys(ns, es)) }

\* The number of places of the layers that hold the id
Occurrences(layers, id) ==
    Cardinality(UNION { { << li, j >> :
                            j \in { k \in 1..Len(layers[li]) :
                                      layers[li][k] = id } } :
                        li \in 1..Len(layers) })

(***************************************************************************)
(* C12  Complete layering: for every graph, with cycles, self-loops and    *)
(* parallel edges or without, the layers of the Hierarchical layout hold   *)
(* every node of the graph exactly once, so every node receives a          *)
(* position.                                                               *)
(***************************************************************************)
C12_CompleteLayering ==
    /\ \A layers \in Layerings(nodes, edges) :
          \A id \in IdsOf(nodes) : Occurrences(layers, id) = 1
    /\ applied = Some("Hierarchical") =>
          \A i \in 1..Len(nodes) : nodes[i].y > 0 /\ nodes[i].x > 0

\* The cycle a -> b -> c -> a, laid out
C12_Witness ==
    /\ applied = Some("Hierarchical")
    /\ Ends(edges) = << [from |-> <<"a">>, to |-> <<"b">>, directed |-> TRUE],
                        [from |-> <<"b">>, to |-> <<"c">>, directed |-> TRUE],
                        [from |-> <<"c">>, to |-> <<"a">>, directed |-> TRUE] >>

(***************************************************************************)
(* C13  Termination of the Hierarchical layout: for every finite graph,    *)
(* cyclic or not, the loop that drains the queue and the placement of the  *)
(* remaining nodes terminate; each node enters the queue at most once.     *)
(***************************************************************************)
C13_HierarchicalTerminates ==
    /\ [](hier # None =>
             /\ \A i, j \in 1..Len(hier[1].queue) :
                   i # j => hier[1].queue[i] # hier[1].queue[j]
             /\ \A i \in 1..Len(hier[1].queue) :
                   hier[1].queue[i] \notin hier[1].processed)
    /\ (pc = "layering") ~> (lresult = "ok")

\* The layout of the cycle a -> b -> c -> a has run to its end
C13_Witness ==
    /\ lresult = "ok"
    /\ hier # None
    /\ Len(hier[1].layers) = 3
    /\ Ends(edges) = << [from |-> <<"a">>, to |-> <<"b">>, directed |-> TRUE],
                        [from |-> <<"b">>, to |-> <<"c">>, directed |-> TRUE],
                        [from |-> <<"c">>, to |-> <<"a">>, directed |-> TRUE] >>

\* The ids reached from id by one to k edges
RECURSIVE ReachedFrom(_, _, _)
ReachedFrom(es, id, k) ==
    IF k = 0 THEN {}
    ELSE LET near == ReachedFrom(es, id, k - 1)
         IN near \cup { es[i].to : i \in { j \in 1..Len(es) :
                                             es[j].from \in near \cup {id} } }

\* The edges form a directed acyclic graph
IsDag(es) ==
    \A i \in 1..Len(es) : es[i].from \notin ReachedFrom(es, es[i].from, Len(es))

\* The index, from 0, of the layer that holds the id
LayerIndex(layers, id) ==
    (CHOOSE li \in 1..Len(layers) :
        \E j \in 1..Len(layers[li]) : layers[li][j] = id) - 1

Predecessors(es, id) == { es[i].from : i \in { j \in 1..Len(es) : es[j].to = id } }

NodeAt(ns, id) == ns[Position(ns, id)]

(***************************************************************************)
(* C14  Top-down flow on acyclic graphs: when the edges form a DAG, the    *)
(* Hierarchical layout puts the nodes of in-degree 0 in layer 0 and every  *)
(* other node in the layer right after the latest layer of its             *)
(* predecessors, so for every edge the layer of `from` is before that of   *)
(* `to` and y(from) > y(to).                                               *)
(***************************************************************************)
C14_TopDownFlow ==
    IsDag(edges) =>
        /\ \A layers \in Layerings(nodes, edges) :
              /\ \A id \in IdsOf(nodes) :
                    LayerIndex(layers, id) =
                       IF Predecessors(edges, id) = {} THEN 0
                       ELSE 1 + (CHOOSE m \in 0..Len(layers) :
                                   /\ \E p \in Predecessors(edges, id) :
                                         LayerIndex(layers, p) = m
                                   /\ \A p \in Predecessors(edges, id) :
                                         LayerIndex(layers, p) <= m)
              /\ \A i \in 1..Len(edges) :
                    LayerIndex(layers, edges[i].from)
                       < LayerIndex(layers, edges[i].to)
        /\ applied = Some("Hierarchical") =>
              \A i \in 1..Len(edges) :
                 NodeAt(nodes, edges[i].from).y > NodeAt(nodes, edges[i].to).y

\* The DAG a -> b, b -> c, a -> c laid out: c is below b, b below a
C14_Witness ==
    /\ applied = Some("Hierarchical")
    /\ Ends(edges) = << [from |-> <<"a">>, to |-> <<"b">>, directed |-> TRUE],
                        [from |-> <<"b">>, to |-> <<"c">>, directed |-> TRUE],
                        [from |-> <<"a">>, to |-> <<"c">>, directed |-> TRUE] >>
    /\ nodes[1].y > nodes[2].y
    /\ nodes[2].y > nodes[3].y

\* The place the grid gives a column or row k of count
GridCoordinate(k, count) ==
    IF count = 1 THEN Half
    ELSE Units(1, 10) + (k * Units(8, 10)) \div (count - 1)

(***************************************************************************)
(* C15  Grid layout: for n >= 1 nodes, with cols = ceil(sqrt(n)) and       *)
(* rows = ceil(n/cols), the node at index i is at column i mod cols and    *)
(* row i div cols (row < rows), the coordinates linearly spaced over       *)
(* [0.1,0.9] (0.5 for a single column or row); distinct nodes get          *)
(* distinct positions, and for n = 4 the positions are (0.1,0.1),          *)
(* (0.9,0.1), (0.1,0.9), (0.9,0.9) in index order.                         *)
(***************************************************************************)
C15_GridLayout ==
    (applied = Some("Grid") /\ Len(nodes) >= 1) =>
        LET n == Len(nodes)
            cols == CHOOSE c \in 1..n : c * c >= n /\ (c - 1) * (c - 1) < n
            rows == CHOOSE r \in 1..n : r * cols >= n /\ (r - 1) * cols < n
        IN /\ \A i \in 0..(n - 1) :
                 /\ i \div cols < rows
                 /\ nodes[i + 1].x = GridCoordinate(i % cols, cols)
                 /\ nodes[i + 1].y = GridCoordinate(i \div cols, rows)
           /\ \A i, j \in 1..n :
                 i # j => << nodes[i].x, nodes[i].y >> # << nodes[j].x, nodes[j].y >>
           /\ n = 4 =>
                 [i \in 1..4 |-> << nodes[i].x, nodes[i].y >>] =
                    << << Units(1, 10), Units(1, 10) >>,
                       << Units(9, 10), Units(1, 10) >>,
                       << Units(1, 10), Units(9, 10) >>,
                       << Units(9, 10), Units(9, 10) >> >>

\* Four nodes on the grid
C15_Witness ==
    /\ applied = Some("Grid")
    /\ Len(nodes) = 4
    /\ nodes[4].x = Units(9, 10)
    /\ nodes[4].y = Units(9, 10)

\* The names of a line of names and separators, in the order of the line
NamesInOrder(line) ==
    [i \in 1..(Len(line) \div 2) |-> << line[2 * i - 1] >>]

\* The sequence without the later occurrences of its elements
RECURSIVE FirstOccurrences(_)
FirstOccurrences(q) ==
    IF q = << >> THEN << >>
    ELSE LET front == FirstOccurrences(SubSeq(q, 1, Len(q) - 1))
         IN IF SeqContains(front, q[Len(q)]) THEN front
            ELSE Append(front, q[Len(q)])

\* The names of a text of edge statements, in the order of the text
RECURSIVE AllNames(_)
AllNames(t) ==
    IF t = << >> THEN << >>
    ELSE AllNames(SubSeq(t, 1, Len(t) - 1)) \o NamesInOrder(t[Len(t)])

PlainEdgeText(t) ==
    \A i \in 1..Len(t) :
       /\ IsEdgeStatement(t[i])
       /\ \A n \in NamedBy(t[i]) : n \in { <<"a">>, <<"b">>, <<"c">> }

(***************************************************************************)
(* C16  Insertion order is preserved by parsing: in the graph parse_dot    *)
(* returns, graph.nodes lists the nodes in the order in which their ids    *)
(* first appear in the text.                                               *)
(***************************************************************************)
C16_InsertionOrder ==
    (result = "Ok" /\ PlainEdgeText(text)) =>
        [i \in 1..Len(nodes) |-> nodes[i].id] = FirstOccurrences(AllNames(text))

(***************************************************************************)
(* C17  State unchanged on error: when add_dot_subplot_with_layout, called *)
(* on a new Figure, returns the Err of a text of no node, the figure is as *)
(* it was before the call: subplots holds no Axes.                         *)
(***************************************************************************)
C17_StateUnchangedOnError == result = "Err" => subplots = << >>

\* The Axes rendered into, and the edges and subgraphs that have something
\* to draw
Drawn == subplots[Len(subplots)]

BothEnds(e) == e.from \in NodeIds /\ e.to \in NodeIds

Present(sg) == \E i \in 1..Len(sg.nodes) : sg.nodes[i] \in NodeIds

Curve(e) == [kind |-> "curve", from |-> e.from, to |-> e.to]

Arrow(e) == [kind |-> "arrow", from |-> e.from, to |-> e.to]

EdgesWhere(P(_)) == { i \in 1..Len(edges) : P(edges[i]) }

SeriesOf(data) ==
    { i \in 1..Len(Drawn.plots) : Drawn.plots[i].data = data }

ArrowsOf(e) ==
    { i \in 1..Len(Drawn.custom_svg_elements) :
        Drawn.custom_svg_elements[i].points = Arrow(e) }

(***************************************************************************)
(* C18  render_to_axes skips the inconsistent edges: after it has run on a *)
(* fresh Axes, an edge whose from or to names no node has no line series   *)
(* and no arrowhead; every other edge has as many curves as the graph has  *)
(* edges of its two ends, every node has its point series and every        *)
(* subgraph of a member present has its box; the number of series is the   *)
(* number of edges of both ends present, plus the number of nodes, plus    *)
(* the number of subgraphs of at least one member present.                 *)
(***************************************************************************)
C18_InconsistentEdgesSkipped ==
    pc = "rendered" =>
       /\ \A i \in 1..Len(edges) :
             IF BothEnds(edges[i])
             THEN Cardinality(SeriesOf(Curve(edges[i])))
                  = Cardinality(EdgesWhere(LAMBDA e :
                        e.from = edges[i].from /\ e.to = edges[i].to))
             ELSE SeriesOf(Curve(edges[i])) = {} /\ ArrowsOf(edges[i]) = {}
       /\ \A i \in 1..Len(nodes) :
             \E j \in 1..Len(Drawn.plots) :
                /\ Drawn.plots[j].plot_type = "Scatter"
                /\ Drawn.plots[j].data
                   = [kind |-> "point", x |-> nodes[i].x, y |-> nodes[i].y]
                /\ Drawn.plots[j].label = nodes[i].label
       /\ \A i \in 1..Len(subgraphs) :
             Present(subgraphs[i]) =>
                \E j \in 1..Len(Drawn.plots) :
                   /\ Drawn.plots[j].plot_type = "Line"
                   /\ Drawn.plots[j].data
                      = BoundingBox(subgraph_nodes(nodes, subgraphs[i]))
       /\ Len(Drawn.plots)
          = Cardinality(EdgesWhere(BothEnds)) + Len(nodes)
            + Cardinality({ i \in 1..Len(subgraphs) : Present(subgraphs[i]) })

\* A graph rendered that has an edge of a missing end, an edge of both ends,
\* a subgraph of no member present and a subgraph of a member present
C18_Witness ==
    /\ pc = "rendered"
    /\ \E i, j \in 1..Len(edges) : ~BothEnds(edges[i]) /\ BothEnds(edges[j])
    /\ \E i, j \in 1..Len(subgraphs) :
          ~Present(subgraphs[i]) /\ Present(subgraphs[j])

\* What the image draws, first to last, and the kinds of what it draws
Image == to_svg(Drawn)

IsBackground(it) == it.item = "custom" /\ it.element.stroke = "none"

IsArrowhead(it) == it.item = "custom" /\ it.element.points.kind = "arrow"

IsEdgePath(it) == it.item = "plot" /\ it.plot.data.kind = "curve"

IsMarker(it) == it.item = "plot" /\ it.plot.plot_type = "Scatter"

IsBorder(it) == it.item = "plot" /\ it.plot.data.kind = "box"

Before(P(_), Q(_)) ==
    \A i, j \in 1..Len(Image) : P(Image[i]) /\ Q(Image[j]) => i < j

(***************************************************************************)
(* C19  Render order, back to front: in the image of an Axes rendered into *)
(* when fresh, every filled background of a subgraph is drawn before every *)
(* edge path, every edge path and every arrowhead before every node        *)
(* marker, and every node marker before every subgraph border.             *)
(***************************************************************************)
C19_RenderOrder ==
    pc = "rendered" =>
       /\ Before(IsBackground, IsEdgePath)
       /\ Before(IsEdgePath, IsMarker)
       /\ Before(IsArrowhead, IsMarker)
       /\ Before(IsMarker, IsBorder)

\* The edges of the ends of e that carry the directed flag, and whether the
\* two ends of e are nodes at different positions
DirectedLike(e) ==
    EdgesWhere(LAMBDA d : d.from = e.from /\ d.to = e.to /\ d.directed)

Apart(e) ==
    /\ BothEnds(e)
    /\ LET from_node == FindNode(nodes, e.from)[1]
           to_node == FindNode(nodes, e.to)[1]
       IN from_node.x # to_node.x \/ from_node.y # to_node.y

Arrowheads ==
    { i \in 1..Len(Drawn.custom_svg_elements) :
        Drawn.custom_svg_elements[i].points.kind = "arrow" }

(***************************************************************************)
(* C20  Arrowheads only for directed edges: after render_to_axes, the      *)
(* arrowheads between two ends are at most the directed edges between      *)
(* them, so an undirected edge adds none, and exactly as many when the two *)
(* ends are nodes at different positions; every arrowhead is that of an    *)
(* edge of the graph, and the arrowheads are no more than the directed     *)
(* edges.                                                                  *)
(***************************************************************************)
C20_ArrowheadsForDirectedEdges ==
    pc = "rendered" =>
       /\ \A i \in 1..Len(edges) :
             /\ Cardinality(ArrowsOf(edges[i]))
                <= Cardinality(DirectedLike(edges[i]))
             /\ Apart(edges[i]) =>
                   Cardinality(ArrowsOf(edges[i]))
                   = Cardinality(DirectedLike(edges[i]))
       /\ \A k \in Arrowheads :
             \E i \in 1..Len(edges) :
                /\ edges[i].directed
                /\ Drawn.custom_svg_elements[k].points = Arrow(edges[i])
       /\ Cardinality(Arrowheads)
          <= Cardinality(EdgesWhere(LAMBDA e : e.directed))

\* A graph laid out and rendered that has a directed and an undirected edge,
\* each between two nodes at different positions, and an arrowhead
C20_Witness ==
    /\ pc = "rendered"
    /\ lresult = "ok"
    /\ \E i, j \in 1..Len(edges) :
          /\ edges[i].directed /\ Apart(edges[i])
          /\ ~edges[j].directed /\ Apart(edges[j])
          /\ << edges[i].from, edges[i].to >> # << edges[j].from, edges[j].to >>
    /\ Arrowheads # {}

(***************************************************************************)
(* C21  calculate_range on a slice that is not empty returns (lo, hi) with *)
(* lo <= x <= hi for every element x: the minimum and the maximum when the *)
(* data holds two distinct values, and lo < hi also when all the elements  *)
(* are equal, whether positive, zero or negative.                          *)
(***************************************************************************)
C21_RangeCoversData ==
    (call # None /\ call.returned # None) =>
       LET data == call.data
           lo == call.returned[1][1]
           hi == call.returned[1][2]
           S == { data[i] : i \in 1..Len(data) }
       IN /\ \A x \in S : lo <= x /\ x <= hi
          /\ Cardinality(S) >= 2 => lo = MinOf(S) /\ hi = MaxOf(S)
          /\ lo < hi

\* The line a step of the parser has read, and whether it is a subgraph
\* definition that closes its own brace
LineRead == text'[Len(text')]

ReadsLine == Len(text') = Len(text) + 1 /\ result' # "panic"

OneLineSubgraph(line) ==
    /\ StartsWith(line, "subgraph")
    /\ Count(line, "{") = 1
    /\ Count(line, "}") = 1

(***************************************************************************)
(* C22  Subgraph closing: a line that takes the brace depth from 2 to 1    *)
(* while a subgraph is active appends that subgraph to graph.subgraphs and *)
(* leaves no subgraph active; a subgraph defined and closed on one line,   *)
(* whose closing brace makes no 2-to-1 transition, is likewise closed:     *)
(* no subgraph is active after that line, so that no node of a later line  *)
(* joins its members.                                                      *)
(***************************************************************************)
C22_SubgraphClosing ==
    [][ReadsLine =>
          /\ (/\ current_subgraph # None
              /\ brace_depth = 2
              /\ brace_depth' = 1
              /\ ~StartsWith(LineRead, "subgraph"))
             => /\ subgraphs' = Append(subgraphs, current_subgraph[1])
                /\ current_subgraph' = None
          /\ OneLineSubgraph(LineRead) => current_subgraph' = None]_vars

\* The value an attribute line gives: what follows the '=', without the
\* trailing ';' and without the double quotes around it
ValueOf(line) == TrimMatches(TrimEndMatches(AfterEq(line), ";"), QUOTE)

SetsAttribute(kw) ==
    /\ ReadsLine
    /\ current_subgraph # None
    /\ Len(LineRead) >= 3
    /\ LineRead[1] = kw
    /\ LineRead[2] = "="

(***************************************************************************)
(* C23  Subgraph attribute values: while a subgraph is active, a line      *)
(* label=V; style=V; or color=V; sets the attribute to the text after the  *)
(* '=' with the double quotes around it and the trailing ';' removed.      *)
(***************************************************************************)
C23_SubgraphAttributeValues ==
    [][/\ SetsAttribute("label") =>
             current_subgraph'[1].label = Some(ValueOf(LineRead))
       /\ SetsAttribute("style") =>
             current_subgraph'[1].style = Some(ValueOf(LineRead))
       /\ SetsAttribute("color") =>
             current_subgraph'[1].color = Some(ValueOf(LineRead))]_vars

\* The lines of the body of the active subgraph read so far, and among them
\* the lines that assign a fill_color, with the value each assigns
BodyStart ==
    LET S == { i \in 1..Len(text) : StartsWith(text[i], "subgraph") }
    IN IF S = {} THEN 0 ELSE CHOOSE i \in S : \A j \in S : j <= i

AssignsFill(line) ==
    \/ StartsWith(line, "color")
    \/ /\ StartsWith(line, "node")
       /\ Contains(line, "[")
       /\ AttrGet(parse_attributes(line), "style") = Some(<<"filled">>)

FillAssigned(line) ==
    IF StartsWith(line, "color") THEN Some(TrimEndMatches(AfterEq(line), ";"))
    ELSE IF AttrGet(parse_attributes(line), "color") # None
    THEN AttrGet(parse_attributes(line), "color")
    ELSE Some(<<"lightgrey">>)

FillLines == { i \in (BodyStart + 1)..Len(text) : AssignsFill(text[i]) }

(***************************************************************************)
(* C24  Last attribute line wins for the fill_color of a subgraph: the     *)
(* fill_color of the active subgraph is the value assigned by the last     *)
(* line of its body, in text order, among its color= lines and its node    *)
(* default lines of style=filled (their color attribute, or lightgrey),    *)
(* whatever the order of those lines.                                      *)
(***************************************************************************)
C24_LastFillWins ==
    (pc = "parsing" /\ current_subgraph # None /\ FillLines # {}) =>
       current_subgraph[1].fill_color
       = FillAssigned(text[CHOOSE i \in FillLines : \A j \in FillLines : j <= i])

\* The attributed statements of a node id among the lines read, and the last
\* of them that sets an attribute
IsAttributed(line, id) ==
    /\ ~Contains(line, "->") /\ ~Contains(line, "--")
    /\ Contains(line, "[") /\ Contains(line, "]")
    /\ ~AttrSlicePanics(line)
    /\ clean_node_name(Split(line, "[")[1]) = id

Setting(id, key) ==
    { i \in 1..Len(text) :
         /\ IsAttributed(text[i], id)
         /\ AttrGet(parse_attributes(text[i]), key) # None }

LastSet(id, key) ==
    AttrGet(parse_attributes(
               text[CHOOSE i \in Setting(id, key) :
                       \A j \in Setting(id, key) : j <= i]), key)[1]

NoSubgraphLine == \A i \in 1..Len(text) : ~StartsWith(text[i], "subgraph")

(***************************************************************************)
(* C25  Node attribute resolution: for a node declared outside any         *)
(* subgraph, each of label, shape and color is the one given by the last   *)
(* attributed statement of its id that sets that attribute, through the    *)
(* shape table and the colour table, and the default when no statement     *)
(* sets it; a bare, edge or chain mention changes none of them.            *)
(***************************************************************************)
C25_NodeAttributeResolution ==
    (pc = "parsing" /\ NoSubgraphLine) =>
       \A id \in DOMAIN node_map :
          /\ node_map[id].label
             = IF Setting(id, "label") = {} THEN Some(id)
               ELSE Some(LastSet(id, "label"))
          /\ node_map[id].shape
             = IF Setting(id, "shape") = {} THEN "Ellipse"
               ELSE node_shape(LastSet(id, "shape"))
          /\ node_map[id].color
             = IF Setting(id, "color") = {} THEN get_node_color(id)
               ELSE parse_color(LastSet(id, "color"))

\* The subgraphs the parser holds: those appended and the active one
HeldSubgraphs ==
    { subgraphs[i] : i \in 1..Len(subgraphs) }
    \cup { current_subgraph[i] : i \in 1..Len(current_subgraph) }

(***************************************************************************)
(* C26  The member list of a subgraph is an ordered set: no node id occurs *)
(* more than once in it, even when several statements of the body of the   *)
(* subgraph name the same node.                                            *)
(***************************************************************************)
C26_MembersAreASet ==
    \A sg \in HeldSubgraphs :
       \A i, j \in 1..Len(sg.nodes) : sg.nodes[i] = sg.nodes[j] => i = j

\* A step that places one unreached node, the node it places, and the
\* layers, counted from one, that hold a node with an edge into it
PlacesNode ==
    /\ pc = "layering"
    /\ hier[1].phase = "remaining"
    /\ hier[1].remaining_nodes # << >>
    /\ hier'[1].remaining_nodes = Tail(hier[1].remaining_nodes)

SourceLayers(layers, node_id) ==
    { li \in 1..Len(layers) :
         \E j \in 1..Len(layers[li]) : \E k \in 1..Len(edges) :
            edges[k].from = layers[li][j] /\ edges[k].to = node_id }

PlacedAfterFirstSource(layers, node_id) ==
    LET S == SourceLayers(layers, node_id)
        first == CHOOSE li \in S : \A m \in S : li <= m
    IN IF S = {} \/ first + 1 > Len(layers)
       THEN Append(layers, << node_id >>)
       ELSE [layers EXCEPT ![first + 1] = Append(@, node_id)]

(***************************************************************************)
(* C27  Cycle repair placement: the step that places a node the Kahn       *)
(* layering has not reached adds it to the layer after the first layer,    *)
(* in the order of the layers, that holds a node with an edge into it, a   *)
(* new trailing layer when that is past the last layer or when no placed   *)
(* node has an edge into it.                                               *)
(***************************************************************************)
C27_CycleRepairPlacement ==
    [][PlacesNode =>
          hier'[1].layers
          = PlacedAfterFirstSource(hier[1].layers,
                                   Head(hier[1].remaining_nodes))]_vars

(***************************************************************************)
(* C28  No two nodes coincide after the Hierarchical layout: in a graph of *)
(* at least two nodes, any two distinct nodes have different (x, y)        *)
(* positions once the layout has run.                                      *)
(***************************************************************************)
C28_NoTwoNodesCoincide ==
    (applied = Some("Hierarchical") /\ lresult = "ok" /\ Len(nodes) >= 2) =>
       \A i, j \in 1..Len(nodes) :
          i # j => << nodes[i].x, nodes[i].y >> # << nodes[j].x, nodes[j].y >>

(***************************************************************************)
(* C29  Shared coordinate frame: after render_to_axes on a graph with      *)
(* subgraphs and no edge drawn, for every size of the figure, a vertex of  *)
(* a raw fragment placed at the data coordinates of a node lands on the    *)
(* pixel at which Axes::to_svg draws the marker of that node.              *)
(***************************************************************************)
C29_SharedCoordinateFrame ==
    (/\ pc = "rendered"
     /\ \E i \in 1..Len(subgraphs) : Present(subgraphs[i])
     /\ EdgesWhere(BothEnds) = {}) =>
       \A size \in FigureSizes : \A i \in 1..Len(nodes) :
          FragmentPixel(nodes, nodes[i].x, nodes[i].y)
          = SeriesPixel(Drawn, size[1], size[2], nodes[i].x, nodes[i].y)

\* The pull on one coordinate of the node at index i, from the positions ns
\* held at the start of an iteration: the sum, over the edges of two ends at
\* different positions, of 0.02 of the difference, towards the other end
RECURSIVE PullOn(_, _, _, _)
PullOn(ns, i, c, k) ==
    IF k > Len(edges) THEN 0
    ELSE LET from_idx == Position(ns, edges[k].from)
             to_idx == Position(ns, edges[k].to)
             apart == /\ from_idx # 0 /\ to_idx # 0
                      /\ \/ ns[from_idx].x # ns[to_idx].x
                         \/ ns[from_idx].y # ns[to_idx].y
             pull == IF apart
                     THEN ((ns[to_idx][c] - ns[from_idx][c]) * 2) \div 100
                     ELSE 0
         IN (IF apart /\ from_idx = i THEN pull ELSE 0)
            - (IF apart /\ to_idx = i THEN pull ELSE 0)
            + PullOn(ns, i, c, k + 1)

PulledOnce(ns) ==
    [i \in 1..Len(ns) |->
       [ns[i] EXCEPT
          !.x = Min2(Max2(ns[i].x + PullOn(ns, i, "x", 1), Units(1, 10)),
                     Units(9, 10)),
          !.y = Min2(Max2(ns[i].y + PullOn(ns, i, "y", 1), Units(1, 10)),
                     Units(9, 10))]]

RECURSIVE PulledTimes(_, _)
PulledTimes(ns, k) == IF k = 0 THEN ns ELSE PulledTimes(PulledOnce(ns), k - 1)

(***************************************************************************)
(* C30  ForceDirected iteration semantics: the positions after the layout  *)
(* are those of the circular placement of radius 0.25 followed by exactly  *)
(* 10 iterations, each of which computes the pull of every edge from the   *)
(* positions at its start, applies all the pulls, then clamps every        *)
(* coordinate to [0.1, 0.9]; two ends at one position exert no pull.       *)
(***************************************************************************)
C30_ForceDirectedIterations ==
    (applied = Some("ForceDirected") /\ lresult = "ok") =>
       nodes = PulledTimes(CirclePlacement(nodes, 25), 10)

\* A ForceDirected layout of three nodes with two edges that share an end
\* and a pull that has moved the nodes off the circle
C30_Witness ==
    /\ applied = Some("ForceDirected")
    /\ lresult = "ok"
    /\ Len(nodes) = 3
    /\ \E i, j \in 1..Len(edges) :
          /\ edges[i].to = edges[j].from
          /\ edges[i].from # edges[i].to
          /\ edges[j].from # edges[j].to
          /\ edges[i].from # edges[j].to
    /\ nodes # CirclePlacement(nodes, 25)

====
